---- MODULE Spec2Model ----
(***************************************************************************)
(* CrashLens detector: a model of the detection-and-suppression pipeline.  *)
(*                                                                         *)
(*   SpecEngine  the Suppression Engine (process_detections), driven by    *)
(*               arbitrary calls;                                          *)
(*   SpecRetry   RetryLoopDetector.detect over bounded trace maps;         *)
(*   SpecStorm   FallbackStormDetector.detect over bounded trace maps;     *)
(*   SpecFallback  FallbackFailureDetector.detect;                         *)
(*   SpecOverkill  OverkillModelDetector.detect and                        *)
(*               detect_expensive_model_waste;                             *)
(*   SpecCost    the cost functions on one record and one pricing table;   *)
(*   SpecWaste   the waste_cost every detector reports;                    *)
(*   SpecTotal   the detect calls on empty, short and promptless inputs;   *)
(*   SpecRepeat  detect called twice on one detector instance;             *)
(*   SpecScan    the two orchestration paths, cli.scan_logs and            *)
(*               __main__._run_prioritized_detection;                      *)
(*   SpecFrame   what detect calls and annotation steps leave of the       *)
(*               input trace map;                                          *)
(*   SpecMalformed  the detect calls on records with a missing or          *)
(*               unparsable startTime;                                     *)
(*   SpecLazy    the detections one detect call reports per trace;         *)
(*   SpecPipeline  the bodies of the two orchestrators past the            *)
(*               construction of the detectors;                            *)
(*   SpecOrdered the Suppression Engine called once per detector, in       *)
(*               canonical priority order;                                 *)
(*   SpecIsolate detect on a trace map next to detect on each trace alone. *)
(*                                                                         *)
(* Time is counted in whole minutes.  A prompt is the record               *)
(* [head, rest, len]: head stands for its first 50 characters, rest for    *)
(* what follows them, len for its character count; the absent or empty     *)
(* prompt is NoPrompt.                                                     *)
(***************************************************************************)
EXTENDS Integers, Sequences, FiniteSets, TLC

VARIABLES
    \* Suppression Engine
    suppression_config,     \* the set of <<detector, owner>> pairs whose suppression is disabled
    trace_ownership,        \* trace_id -> owning detector name
    suppressed_detections,  \* the engine's suppressed list
    active_detections,      \* the engine's accumulated active list
    call,                   \* the arguments of the last process_detections call
    returned,               \* the list the last process_detections call returned
    \* detectors
    traces,                 \* the trace store: trace_id -> list of records
    max_retries,            \* RetryLoopDetector.max_retries
    time_window,            \* RetryLoopDetector.time_window, minutes
    fallback_threshold,     \* FallbackStormDetector.fallback_threshold
    storm_window,           \* FallbackStormDetector.time_window, minutes
    flagged_arg,            \* the already_flagged_ids argument of the last detect call
    detections,             \* the list the last detect call returned
    raised,                 \* the exception the last call raised, or NoError
    \* cost model
    pricing_arg,            \* the model_pricing argument of the calls
    cost_result,            \* what the last cost function call returned
    \* one RetryLoopDetector instance across calls
    semantic_model,         \* self.model is loaded (not None)
    encode_failures,        \* the traces on whose prompts self.model.encode raises
    previous,               \* the list the detect call before the last returned
    \* the detector loop of _run_prioritized_detection
    excluded_ids,           \* excluded_records: the record ids claimed so far
    detector_input,         \* filtered_traces: what the detector run last was given
    pc                      \* the position of the run

engineVars == <<suppression_config, trace_ownership, suppressed_detections,
                active_detections, call, returned>>
detectorVars == <<traces, max_retries, time_window, fallback_threshold,
                  storm_window, flagged_arg, detections, raised>>
costVars == <<pricing_arg, cost_result>>
modeVars == <<semantic_model, encode_failures, previous>>
loopVars == <<excluded_ids, detector_input>>
vars == <<engineVars, detectorVars, costVars, modeVars, loopVars, pc>>

(***************************************************************************)
(* Helpers                                                                 *)
(***************************************************************************)
Range(s) == {s[i] : i \in 1..Len(s)}

SeqsUpTo(S, n) == UNION {[1..k -> S] : k \in 0..n}

Max(a, b) == IF a >= b THEN a ELSE b

NoArg == "no_argument"

\* The already_flagged_ids argument of a detect call: not given, or a set of ids.
NotFlagged == [given |-> FALSE, ids |-> {}]
Flagged(S) == [given |-> TRUE, ids |-> S]
NoError == "no_error"

TraceIds == {"t1", "t2"}

\* The order in which a trace map (a dict) is iterated: insertion order.
TraceOrder == <<"t1", "t2">>

(***************************************************************************)
(* Suppression Engine                                                      *)
(***************************************************************************)
RetryLoop == "RetryLoopDetector"
FallbackFailure == "FallbackFailureDetector"
FallbackStorm == "FallbackStormDetector"
OverkillModel == "OverkillModelDetector"

Detectors == {RetryLoop, FallbackFailure, FallbackStorm, OverkillModel}

\* Canonical order: Retry-Loop > Fallback-Failure > Fallback-Storm > Overkill-Model.
DETECTOR_PRIORITY ==
    [d \in Detectors |->
        CASE d = RetryLoop -> 1
          [] d = FallbackFailure -> 2
          [] d = FallbackStorm -> 3
          [] d = OverkillModel -> 4]

DetectorOfPriority(p) == CHOOSE d \in Detectors : DETECTOR_PRIORITY[d] = p

DetectionType(d) ==
    CASE d = RetryLoop -> "retry_loop"
      [] d = FallbackFailure -> "fallback_failure"
      [] d = FallbackStorm -> "fallback_storm"
      [] d = OverkillModel -> "overkill_model"

\* SuppressionEngine(suppression_config): every list and the ownership map start empty.
EngineInit(config) ==
    /\ suppression_config = config
    /\ trace_ownership = <<>>
    /\ suppressed_detections = <<>>
    /\ active_detections = <<>>
    /\ call = [detector_name |-> NoArg, detections |-> <<>>]
    /\ returned = <<>>

\* Suppression of a detector's finding by an owner is on unless the
\* configuration disables it for that pair.
SuppressionEnabled(config, detector_name, owner) ==
    <<detector_name, owner>> \notin config

Mut_should_suppress_by_priority(config, detector_name, current_priority, owner_priority) ==
    TRUE

_should_suppress_by_priority(config, detector_name, current_priority, owner_priority) ==
    SuppressionEnabled(config, detector_name, DetectorOfPriority(owner_priority))

Mut_ProcessOne_overwrite(config, st, detector_name, detection) ==
    LET t == detection.trace_id IN
    IF t \notin DOMAIN st.ownership \/ st.ownership[t] = detector_name
    THEN [st EXCEPT !.ownership = (t :> detector_name) @@ @,
                    !.active = Append(@, detection)]
    ELSE IF _should_suppress_by_priority(config, detector_name,
                DETECTOR_PRIORITY[detector_name], DETECTOR_PRIORITY[st.ownership[t]])
    THEN [st EXCEPT !.suppressed = Append(@,
                [type |-> detection.type, trace_id |-> t,
                 detector |-> detector_name,
                 suppression_reason |-> st.ownership[t]])]
    ELSE [st EXCEPT !.ownership = (t :> detector_name) @@ @,
                    !.active = Append(@, detection)]

Mut_ProcessOne_noSuppress(config, st, detector_name, detection) ==
    LET t == detection.trace_id IN
    IF t \notin DOMAIN st.ownership
    THEN [st EXCEPT !.ownership = (t :> detector_name) @@ @,
                    !.active = Append(@, detection)]
    ELSE [st EXCEPT !.active = Append(@, detection)]

Mut_ProcessOne_ownSuppressed(config, st, detector_name, detection) ==
    LET t == detection.trace_id IN
    IF t \notin DOMAIN st.ownership
    THEN [st EXCEPT !.ownership = (t :> detector_name) @@ @,
                    !.active = Append(@, detection)]
    ELSE IF _should_suppress_by_priority(config, detector_name,
                DETECTOR_PRIORITY[detector_name], DETECTOR_PRIORITY[st.ownership[t]])
    THEN [st EXCEPT !.suppressed = Append(@,
                [type |-> detection.type, trace_id |-> t,
                 detector |-> detector_name,
                 suppression_reason |-> st.ownership[t]])]
    ELSE [st EXCEPT !.active = Append(@, detection)]

\* One detection of a process_detections call.  st = [ownership, suppressed, active].
ProcessOne(config, st, detector_name, detection) ==
    LET t == detection.trace_id IN
    IF t \notin DOMAIN st.ownership
    THEN \* no owner yet: the current detector claims the trace
         [st EXCEPT !.ownership = (t :> detector_name) @@ @,
                    !.active = Append(@, detection)]
    ELSE IF st.ownership[t] = detector_name
    THEN \* the owner's own finding stays active
         [st EXCEPT !.active = Append(@, detection)]
    ELSE IF _should_suppress_by_priority(config, detector_name,
                DETECTOR_PRIORITY[detector_name], DETECTOR_PRIORITY[st.ownership[t]])
    THEN [st EXCEPT !.suppressed = Append(@,
                [type |-> detection.type, trace_id |-> t,
                 detector |-> detector_name,
                 suppression_reason |-> st.ownership[t]])]
    ELSE \* suppression disabled for the pair: active, the owner is kept
         [st EXCEPT !.active = Append(@, detection)]

RECURSIVE ProcessAll(_, _, _, _)
ProcessAll(config, st, detector_name, dets) ==
    IF dets = <<>> THEN st
    ELSE ProcessAll(config, ProcessOne(config, st, detector_name, Head(dets)),
                    detector_name, Tail(dets))

\* process_detections(detector_name, detections) -> the active detections of this call
process_detections(detector_name, dets) ==
    LET st0 == [ownership |-> trace_ownership,
                suppressed |-> suppressed_detections,
                active |-> <<>>]
        st == ProcessAll(suppression_config, st0, detector_name, dets)
    IN  /\ trace_ownership' = st.ownership
        /\ suppressed_detections' = st.suppressed
        /\ active_detections' = active_detections \o st.active
        /\ returned' = st.active
        /\ call' = [detector_name |-> detector_name, detections |-> dets]
        /\ UNCHANGED suppression_config

\* The pairs <<detector, owner>> a configuration may switch off
\* (the suppress_if_<owner> flags of the suppression configuration).
ConfigurablePairs ==
    {<<FallbackStorm, RetryLoop>>, <<OverkillModel, RetryLoop>>,
     <<OverkillModel, FallbackStorm>>}

\* The detections the engine processes over one run.
MaxDetections == 4

EngineProcessed == Len(active_detections) + Len(suppressed_detections)

RawDetections(detector_name) ==
    {[type |-> DetectionType(detector_name), trace_id |-> t] : t \in TraceIds}

DetectorsIdle ==
    /\ traces = <<>>
    /\ max_retries = 0
    /\ time_window = 0
    /\ fallback_threshold = 0
    /\ storm_window = 0
    /\ flagged_arg = NotFlagged
    /\ detections = <<>>
    /\ raised = NoError

EngineIdle == EngineInit({})

\* No pricing argument, no cost call yet.
CostIdle == pricing_arg = NoArg /\ cost_result = NoArg

\* A detector in exact-match mode that has not been called.
ModeIdle == semantic_model = FALSE /\ encode_failures = {} /\ previous = <<>>

\* No detector loop under way.
LoopIdle == excluded_ids = {} /\ detector_input = <<>>

InitEngine ==
    /\ \E config \in SUBSET ConfigurablePairs : EngineInit(config)
    /\ DetectorsIdle
    /\ CostIdle
    /\ ModeIdle
    /\ LoopIdle
    /\ pc = "engine"

\* A caller hands one detector's raw detection list to the engine.
ProcessDetections ==
    /\ pc = "engine"
    /\ \E detector_name \in Detectors :
         \E dets \in SeqsUpTo(RawDetections(detector_name),
                              MaxDetections - EngineProcessed) :
            process_detections(detector_name, dets)
    /\ UNCHANGED <<detectorVars, costVars, modeVars, loopVars, pc>>

NextEngine == ProcessDetections

SpecEngine == InitEngine /\ [][NextEngine]_vars

(***************************************************************************)
(* Claims about the Suppression Engine (checked under SpecEngine)          *)
(***************************************************************************)
OnTrace(dets, t) == SelectSeq(dets, LAMBDA d : d.trace_id = t)

\* The suppressed entries the last step appended.
NewlySuppressed ==
    {suppressed_detections'[j] :
        j \in (Len(suppressed_detections) + 1)..Len(suppressed_detections')}

\* C1: first-claim-wins.  Once trace_ownership[t] is set, no later
\* process_detections call, for any detector and any detection list, with
\* suppression of the pair enabled or disabled, changes trace_ownership[t].
C1_FirstClaimWins ==
    [][\A t \in DOMAIN trace_ownership :
          /\ t \in DOMAIN trace_ownership'
          /\ trace_ownership'[t] = trace_ownership[t]]_vars

\* C1 witness: a call for another detector, whose suppression by the owner is
\* switched off, has brought a detection for an owned trace.
C1_Witness ==
    \E i \in 1..Len(call.detections) :
        LET t == call.detections[i].trace_id IN
        /\ t \in DOMAIN trace_ownership
        /\ trace_ownership[t] # call.detector_name
        /\ <<call.detector_name, trace_ownership[t]>> \in suppression_config
        /\ call.detections[i] \in Range(returned)

\* C3: with suppression enabled for the pair, a detection of detector D on a
\* trace already owned by a different detector O is not returned as active and
\* is appended to suppressed_detections with suppression_reason = O.  For a
\* trace owned by Retry-Loop no Overkill detection is active: the Overkill
\* finding is in suppressed_detections with a reason naming Retry-Loop.
C3_SuppressedWhenOwned ==
    [][/\ \A i \in 1..Len(call'.detections) :
            LET d == call'.detections[i]
                t == d.trace_id
                D == call'.detector_name
            IN  (/\ t \in DOMAIN trace_ownership
                 /\ trace_ownership[t] # D
                 /\ SuppressionEnabled(suppression_config, D, trace_ownership[t]))
                => /\ d \notin Range(returned')
                   /\ [type |-> d.type, trace_id |-> t, detector |-> D,
                       suppression_reason |-> trace_ownership[t]] \in NewlySuppressed
       /\ \A t \in DOMAIN trace_ownership' :
            (/\ trace_ownership'[t] = RetryLoop
             /\ SuppressionEnabled(suppression_config, OverkillModel, RetryLoop))
            => \A k \in 1..Len(active_detections') :
                  active_detections'[k].trace_id = t
                  => active_detections'[k].type # DetectionType(OverkillModel)
      ]_vars

\* C3 witness: a trace flagged by Retry-Loop and then by Overkill-Model has
\* one active detection, Retry-Loop's, and the Overkill one is suppressed with
\* a reason naming Retry-Loop.
C3_Witness ==
    \E t \in DOMAIN trace_ownership :
        /\ trace_ownership[t] = RetryLoop
        /\ OnTrace(active_detections, t) =
              <<[type |-> DetectionType(RetryLoop), trace_id |-> t]>>
        /\ call.detector_name = OverkillModel
        /\ returned = <<>>
        /\ [type |-> DetectionType(OverkillModel), trace_id |-> t,
            detector |-> OverkillModel, suppression_reason |-> RetryLoop]
              \in Range(suppressed_detections)

\* The detections of the pending call that sit on traces Retry-Loop owns.
StormOnRetryOwned ==
    SelectSeq(call'.detections,
              LAMBDA d : /\ d.trace_id \in DOMAIN trace_ownership
                         /\ trace_ownership[d.trace_id] = RetryLoop)

\* C4: suppression is opt-out per detector pair.  With suppression of
\* Fallback-Storm by Retry-Loop disabled, a Fallback-Storm detection on a trace
\* Retry-Loop owns is returned as active and not added to
\* suppressed_detections (1 active, 0 suppressed); with it enabled the same
\* input gives 0 active and 1 suppressed; the owner stays Retry-Loop in both.
C4_SuppressionToggle ==
    [][call'.detector_name = FallbackStorm =>
        /\ \A i \in 1..Len(StormOnRetryOwned) :
              LET d == StormOnRetryOwned[i] IN
              /\ trace_ownership'[d.trace_id] = RetryLoop
              /\ IF <<FallbackStorm, RetryLoop>> \in suppression_config
                 THEN /\ d \in Range(returned')
                      /\ \A e \in NewlySuppressed : e.trace_id # d.trace_id
                 ELSE /\ d \notin Range(returned')
                      /\ \E e \in NewlySuppressed : e.trace_id = d.trace_id
        /\ (StormOnRetryOwned = call'.detections) =>
              IF <<FallbackStorm, RetryLoop>> \in suppression_config
              THEN /\ Len(returned') = Len(call'.detections)
                   /\ suppressed_detections' = suppressed_detections
              ELSE /\ Len(returned') = 0
                   /\ Len(suppressed_detections') =
                         Len(suppressed_detections) + Len(call'.detections)
      ]_vars

\* C4 witness: the toggle test with suppression disabled: Retry-Loop owns the
\* trace, the Fallback-Storm call returned its detection, nothing is suppressed.
C4_Witness ==
    /\ <<FallbackStorm, RetryLoop>> \in suppression_config
    /\ call.detector_name = FallbackStorm
    /\ Len(call.detections) = 1
    /\ trace_ownership[call.detections[1].trace_id] = RetryLoop
    /\ Len(OnTrace(active_detections, call.detections[1].trace_id)) = 2
    /\ returned = call.detections
    /\ suppressed_detections = <<>>

(***************************************************************************)
(* Records and prompts                                                     *)
(***************************************************************************)
\* A record without a 'startTime' key carries NoTime.
NoTime == -1

\* prompt: head = its first 50 characters, rest = the characters after them,
\* len = its character count, words = len(prompt.split()), starts = the
\* recognised phrase its lower-cased text starts with ("" for none),
\* complex = it holds a JSON marker, more than 3 newlines or code.
NoPrompt ==
    [head |-> "", rest |-> "", len |-> 0, words |-> 0, starts |-> "", complex |-> FALSE]
PromptA ==
    [head |-> "What is 2+2?", rest |-> "", len |-> 12, words |-> 3,
     starts |-> "what is", complex |-> FALSE]
PromptB ==
    [head |-> "What is 3+3? ", rest |-> "", len |-> 13, words |-> 3,
     starts |-> "what is", complex |-> FALSE]
PromptC ==
    [head |-> "Complex analysis task over the attached report", rest |-> "",
     len |-> 46, words |-> 7, starts |-> "", complex |-> FALSE]

\* Two of the prompts the sentence encoder places close together.
PromptWeather1 ==
    [head |-> "What's the weather like today?", rest |-> "", len |-> 30, words |-> 5,
     starts |-> "", complex |-> FALSE]
PromptWeather2 ==
    [head |-> "How's the weather today?", rest |-> "", len |-> 24, words |-> 4,
     starts |-> "", complex |-> FALSE]

\* What a prompt is about, as far as the sentence encoder tells prompts apart.
Topic(prompt) ==
    IF prompt \in {PromptWeather1, PromptWeather2} THEN "weather" ELSE prompt.head

\* Python truthiness of a prompt: None and '' are false.
Truthy(prompt) == prompt.len > 0

Models == {"gpt-3.5-turbo", "gpt-4"}

\* A record without a 'prompt_tokens' key carries NoTokens.
NoTokens == -1

\* record['cost']: the key is absent, its value is None, or it is a number.
\* Amounts of money are counted in units of 1e-7 dollars.
AbsentCost == [kind |-> "absent", value |-> 0]
NullCost == [kind |-> "null", value |-> 0]
Cost(amount) == [kind |-> "number", value |-> amount]

\* A normalised call record.  output: a non-empty completion/output field is
\* present; error: an error or failed flag is set.
FullRecord(time, model, prompt, prompt_tokens, completion_tokens, output, error) ==
    [startTime |-> time, model |-> model, prompt |-> prompt,
     prompt_tokens |-> prompt_tokens, completion_tokens |-> completion_tokens,
     output |-> output, error |-> error, cost |-> AbsentCost]

\* The record with its 'cost' entry set.
WithCost(record, cost) == [record EXCEPT !.cost = cost]

\* The records of the detector tests: 5 prompt tokens, 8 completion tokens.
Record(time, model, prompt) == FullRecord(time, model, prompt, 5, 8, FALSE, FALSE)

\* sorted(records, key=startTime): a stable insertion sort.
RECURSIVE InsertByStartTime(_, _)
InsertByStartTime(sorted, r) ==
    IF sorted = <<>> THEN <<r>>
    ELSE IF sorted[Len(sorted)].startTime <= r.startTime
    THEN Append(sorted, r)
    ELSE Append(InsertByStartTime(SubSeq(sorted, 1, Len(sorted) - 1), r),
                sorted[Len(sorted)])

RECURSIVE SortByStartTime(_)
SortByStartTime(records) ==
    IF records = <<>> THEN <<>>
    ELSE InsertByStartTime(SortByStartTime(SubSeq(records, 1, Len(records) - 1)),
                           records[Len(records)])

\* The iteration of a trace map: its trace ids in insertion order.
TraceIdsOf(trs) == SelectSeq(TraceOrder, LAMBDA t : t \in DOMAIN trs)

RECURSIVE Concat(_)
Concat(seqs) == IF seqs = <<>> THEN <<>> ELSE Head(seqs) \o Concat(Tail(seqs))

(***************************************************************************)
(* Cost model                                                              *)
(***************************************************************************)
\* model_pricing: None, or a dict from model names to rows.  A row holds the
\* rates per token, in 1e-7 dollars: 0.03 dollars per 1k tokens is 300.
Row(input_rate, output_rate) ==
    [input_cost_per_1k |-> input_rate, output_cost_per_1k |-> output_rate]
NoRows == [m \in {} |-> Row(0, 0)]
NoPricing == [given |-> FALSE, rows |-> NoRows]
PricingTable(rows) == [given |-> TRUE, rows |-> rows]

\* pricing_config.get('models', {}) when no pricing file is loaded.
EmptyPricing == PricingTable(NoRows)

\* `not model_pricing`: None and {} are false.
PricingFalsy(model_pricing) ==
    ~model_pricing.given \/ DOMAIN model_pricing.rows = {}

\* record.get('prompt_tokens', 0)
InputTokens(record) ==
    IF record.prompt_tokens = NoTokens THEN 0 ELSE record.prompt_tokens

\* (input_tokens / 1000) * input_cost_per_1k + (output_tokens / 1000) * output_cost_per_1k
RowCost(record, model_config) ==
    InputTokens(record) * model_config.input_cost_per_1k
    + record.completion_tokens * model_config.output_cost_per_1k

\* record.get('cost', 0.0): None when the key is present and null.
GetCost(record) ==
    IF record.cost.kind = "absent" THEN Cost(0) ELSE record.cost

\* RetryLoopDetector._calculate_record_cost, ShortModelDetector._calculate_record_cost
\* and the module function of overkill_model_detector: the same body.
_calculate_record_cost(record, model_pricing) ==
    IF PricingFalsy(model_pricing) THEN GetCost(record)
    ELSE IF record.cost.kind = "number" THEN record.cost
    ELSE IF record.model \in DOMAIN model_pricing.rows
    THEN Cost(RowCost(record, model_pricing.rows[record.model]))
    ELSE Cost(0)

_calculate_cost_with_model(record, new_model, model_pricing) ==
    IF PricingFalsy(model_pricing) THEN Cost(0)
    ELSE IF new_model \in DOMAIN model_pricing.rows
    THEN Cost(RowCost(record, model_pricing.rows[new_model]))
    ELSE Cost(0)

\* 'gpt-4' in model, 'claude-2' in model
NamesGpt4 == {"gpt-4", "gpt-4-32k", "gpt-4-turbo", "gpt-4-1106-preview"}
NamesClaude2 == {"claude-2", "claude-2.0", "claude-2.1"}

\* OverkillModelDetector._calculate_estimated_cost
_calculate_estimated_cost(record, model_pricing) ==
    IF record.cost.kind = "number" THEN record.cost
    ELSE IF ~PricingFalsy(model_pricing) /\ record.model \in DOMAIN model_pricing.rows
    THEN Cost(RowCost(record, model_pricing.rows[record.model]))
    ELSE IF record.model \in NamesGpt4 THEN Cost(RowCost(record, Row(300, 600)))
    ELSE IF record.model \in NamesClaude2 THEN Cost(RowCost(record, Row(80, 240)))
    ELSE Cost(0)

\* sum(...) over a list of numbers.
RECURSIVE SumOf(_)
SumOf(numbers) ==
    IF numbers = <<>> THEN 0 ELSE Head(numbers) + SumOf(Tail(numbers))

\* sum(r.get('completion_tokens', 0) for r in group)
TotalTokens(group) == SumOf([i \in 1..Len(group) |-> group[i].completion_tokens])

\* sum(...) over costs raises TypeError when one of them is None.
SumRaises(costs) == \E i \in 1..Len(costs) : costs[i].kind = "null"
SumCosts(costs) == SumOf([i \in 1..Len(costs) |-> costs[i].value])

(***************************************************************************)
(* RetryLoopDetector                                                       *)
(***************************************************************************)
\* def detect(self, traces, model_pricing=None)
RetryDetectParams == {"traces", "model_pricing"}

\* The exact-match branch: both prompts present and equal.
RetryAreSimilar(prev_record, curr_record) ==
    /\ Truthy(prev_record.prompt)
    /\ Truthy(curr_record.prompt)
    /\ prev_record.prompt = curr_record.prompt

\* The embeddings branch: cos_sim(embeddings[i-1], embeddings[i]) >= threshold.
\* Prompts on one topic are that close; any other two prompts are only when
\* they are the same text.
SemanticallySimilar(prev_record, curr_record) ==
    Topic(prev_record.prompt) = Topic(curr_record.prompt)

RetryWithinTimeWindow(prev_record, curr_record, window) ==
    curr_record.startTime - prev_record.startTime <= window

\* The grouping loop from index i on; current_group holds the open group.
\* embeddings: the prompts were encoded (embeddings is not None).
RECURSIVE RetryGroupLoop(_, _, _, _, _, _)
RetryGroupLoop(sorted_records, i, all_groups, current_group, window, embeddings) ==
    IF i > Len(sorted_records) THEN Append(all_groups, current_group)
    ELSE LET prev_record == sorted_records[i - 1]
             curr_record == sorted_records[i]
             are_similar == IF embeddings
                            THEN SemanticallySimilar(prev_record, curr_record)
                            ELSE RetryAreSimilar(prev_record, curr_record)
         IN  IF /\ are_similar
                /\ RetryWithinTimeWindow(prev_record, curr_record, window)
             THEN RetryGroupLoop(sorted_records, i + 1, all_groups,
                                 Append(current_group, curr_record), window,
                                 embeddings)
             ELSE RetryGroupLoop(sorted_records, i + 1,
                                 Append(all_groups, current_group),
                                 <<curr_record>>, window, embeddings)

\* A variant that groups the records in the order they were passed in.
Mut_find_retry_groups(records, window, embeddings) ==
    LET sorted_records == SelectSeq(records, LAMBDA r : r.startTime # NoTime)
    IN  IF sorted_records = <<>> THEN <<>>
        ELSE RetryGroupLoop(sorted_records, 2, <<>>, <<sorted_records[1]>>,
                            window, embeddings)

_find_retry_groups(records, window, embeddings) ==
    LET sorted_records ==
            SortByStartTime(SelectSeq(records, LAMBDA r : r.startTime # NoTime))
    IN  IF sorted_records = <<>> THEN <<>>
        ELSE RetryGroupLoop(sorted_records, 2, <<>>, <<sorted_records[1]>>,
                            window, embeddings)

\* _get_time_span: max - min of the group's timestamps (minutes here).
RetryTimeSpan(group) ==
    IF Len(group) < 2 THEN 0
    ELSE LET ts == {group[i].startTime : i \in 1..Len(group)}
         IN  (CHOOSE a \in ts : \A b \in ts : a >= b)
             - (CHOOSE a \in ts : \A b \in ts : a <= b)

Mut_RetryGroupQualifies(group, maxRetries) == Len(group) >= maxRetries

\* if len(group) > self.max_retries
RetryGroupQualifies(group, maxRetries) == Len(group) > maxRetries

\* model: self.model when the detection is built.
RetryDetection(trace_id, group, model_pricing, model) ==
    [type |-> "retry_loop",
     trace_id |-> trace_id,
     severity |-> IF Len(group) > 5 THEN "high" ELSE "medium",
     waste_tokens |-> TotalTokens(group),
     waste_cost |-> SumCosts([i \in 1..Len(group) |->
                                _calculate_record_cost(group[i], model_pricing)]),
     retry_count |-> Len(group),
     time_span |-> RetryTimeSpan(group),
     sample_prompt |-> group[1].prompt,
     detection_method |-> IF model THEN "semantic" ELSE "exact_match",
     records |-> group]

\* The trace reaches self.model.encode: it has more records than max_retries
\* and one of them has a start time.
RetryEncodes(records, maxRetries) ==
    /\ Len(records) > maxRetries
    /\ \E i \in 1..Len(records) : records[i].startTime # NoTime

\* self.model after the trace: an encode failure on it sets self.model = None.
RetryModelAfter(trace_id, records, maxRetries, model, encode_fails) ==
    model /\ ~(RetryEncodes(records, maxRetries) /\ trace_id \in encode_fails)

\* The qualifying groups of one trace; model is self.model after the trace.
RetryHits(records, maxRetries, window, model) ==
    IF Len(records) <= maxRetries THEN <<>>
    ELSE SelectSeq(_find_retry_groups(records, window, model),
                   LAMBDA g : RetryGroupQualifies(g, maxRetries))

\* The detections of one trace.
RetryDetectTrace(trace_id, records, maxRetries, window, model_pricing, model) ==
    LET hits == RetryHits(records, maxRetries, window, model)
    IN  [k \in 1..Len(hits) |->
            RetryDetection(trace_id, hits[k], model_pricing, model)]

\* The loop of detect over the traces from position k on.  model is self.model
\* on entry; encode_fails holds the traces on whose prompts encode raises.
RECURSIVE RetryRun(_, _, _, _, _, _, _, _)
RetryRun(trs, k, maxRetries, window, model_pricing, model, encode_fails, detected) ==
    LET ids == TraceIdsOf(trs) IN
    IF k > Len(ids) THEN [detections |-> detected, model |-> model]
    ELSE LET after == RetryModelAfter(ids[k], trs[ids[k]], maxRetries, model,
                                      encode_fails)
         IN  RetryRun(trs, k + 1, maxRetries, window, model_pricing, after,
                      encode_fails,
                      detected \o RetryDetectTrace(ids[k], trs[ids[k]], maxRetries,
                                                   window, model_pricing, after))

\* sum(...) over the costs of a qualifying group raises TypeError on a None.
RetryRaises(trs, maxRetries, window, model_pricing) ==
    \E t \in DOMAIN trs :
        LET hits == RetryHits(trs[t], maxRetries, window, FALSE)
        IN  \E k \in 1..Len(hits) :
               SumRaises([i \in 1..Len(hits[k]) |->
                            _calculate_record_cost(hits[k][i], model_pricing)])

\* RetryLoopDetector.detect(traces) of a detector in exact-match mode
\* (self.model is None), model_pricing=None.
RetryLoopDetect(trs, maxRetries, window) ==
    RetryRun(trs, 1, maxRetries, window, NoPricing, FALSE, {}, <<>>).detections

(***************************************************************************)
(* SpecRetry: RetryLoopDetector.detect on bounded trace maps               *)
(***************************************************************************)
\* The records of a trace, and the latest start time, in the inputs drawn.
MaxLen == 3
MaxTime == 2

RetryPrompts == {PromptA, PromptB}

RetryRecords ==
    {Record(time, model, prompt) :
        time \in 0..MaxTime, model \in Models, prompt \in RetryPrompts}

\* trace_2 of the already-flagged test: three identical gpt-4 calls.
SecondTrace ==
    <<Record(0, "gpt-4", PromptC), Record(0, "gpt-4", PromptC),
      Record(0, "gpt-4", PromptC)>>

\* The trace under study next to trace_2.
RetryTraceMaps ==
    {("t1" :> recs) @@ ("t2" :> SecondTrace) :
        recs \in SeqsUpTo(RetryRecords, MaxLen) \ {<<>>}}

InitRetry ==
    /\ EngineIdle
    /\ LoopIdle
    /\ CostIdle
    /\ ModeIdle
    /\ traces \in RetryTraceMaps
    /\ max_retries \in 1..(MaxLen - 1)
    /\ time_window \in 1..MaxTime
    /\ fallback_threshold = 0
    /\ storm_window = 0
    /\ flagged_arg = NotFlagged
    /\ detections = <<>>
    /\ raised = NoError
    /\ pc = "ready"

\* detector.detect(traces)
RetryDetect ==
    /\ pc = "ready"
    /\ detections' = RetryLoopDetect(traces, max_retries, time_window)
    /\ flagged_arg' = NotFlagged
    /\ raised' = NoError
    /\ pc' = "done"
    /\ UNCHANGED <<engineVars, costVars, modeVars, loopVars, traces, max_retries,
                   time_window, fallback_threshold, storm_window>>

\* detector.detect(traces, already_flagged_ids=S): detect has no such
\* parameter, so binding the keyword raises TypeError before the body runs.
RetryDetectFlagged ==
    /\ pc = "ready"
    /\ \E S \in (SUBSET DOMAIN traces) \ {{}, DOMAIN traces} :
          /\ flagged_arg' = Flagged(S)
          /\ IF "already_flagged_ids" \in RetryDetectParams
             THEN /\ detections' =
                        RetryLoopDetect([t \in DOMAIN traces \ S |-> traces[t]],
                                        max_retries, time_window)
                  /\ raised' = NoError
             ELSE /\ detections' = detections
                  /\ raised' = "TypeError"
    /\ pc' = "done"
    /\ UNCHANGED <<engineVars, costVars, modeVars, loopVars, traces, max_retries,
                   time_window, fallback_threshold, storm_window>>

NextRetry == RetryDetect \/ RetryDetectFlagged

SpecRetry == InitRetry /\ [][NextRetry]_vars

(***************************************************************************)
(* Claims about RetryLoopDetector (checked under SpecRetry)                *)
(***************************************************************************)
\* A plain detect call has returned.
RetryDone == pc = "done" /\ ~flagged_arg.given

\* The timestamped records of a trace in chronological order.
Chronological(t) ==
    SortByStartTime(SelectSeq(traces[t], LAMBDA r : r.startTime # NoTime))

\* Records k and k+1 of s are similar and timely: the same non-empty prompt,
\* at most the time window apart.
RetryLinked(s, k) ==
    /\ s[k].prompt # NoPrompt
    /\ s[k].prompt = s[k + 1].prompt
    /\ s[k + 1].startTime - s[k].startTime <= time_window

\* The maximal runs of consecutive similar-and-timely records of s, as index pairs.
MaximalRuns(s) ==
    {run \in (1..Len(s)) \X (1..Len(s)) :
        /\ run[1] <= run[2]
        /\ \A k \in run[1]..(run[2] - 1) : RetryLinked(s, k)
        /\ run[1] = 1 \/ ~RetryLinked(s, run[1] - 1)
        /\ run[2] = Len(s) \/ ~RetryLinked(s, run[2])}

RunSize(run) == run[2] - run[1] + 1

C7_ModelChangeBreaksRun ==
    RetryDone =>
        \A k \in 1..Len(detections) :
            \A i, j \in 1..Len(detections[k].records) :
                detections[k].records[i].model = detections[k].records[j].model

\* C8: the retry time window is cumulative.  For every retry_loop detection
\* the time between the first and the last record of its group is at most the
\* configured time window.
C8_CumulativeWindow ==
    RetryDone =>
        \A k \in 1..Len(detections) :
            LET group == detections[k].records
            IN  group[Len(group)].startTime - group[1].startTime <= time_window

\* The detections detect returns for the traces outside S.
RetryExpectedOutside(S) ==
    RetryLoopDetect([t \in DOMAIN traces \ S |-> traces[t]], max_retries, time_window)

\* C9: detect accepts an already_flagged_ids set and skips those traces: the
\* call returns a list with no detection on a trace of S and with the
\* detections of every trace outside S.
C9_SkipsAlreadyFlagged ==
    (pc = "done" /\ flagged_arg.given) =>
        /\ raised = NoError
        /\ \A k \in 1..Len(detections) : detections[k].trace_id \notin flagged_arg.ids
        /\ \A t \in DOMAIN traces \ flagged_arg.ids :
              OnTrace(detections, t) = OnTrace(RetryExpectedOutside(flagged_arg.ids), t)

(***************************************************************************)
(* FallbackStormDetector                                                   *)
(***************************************************************************)
\* def detect(self, traces)
StormDetectParams == {"traces"}

\* abs(len(prompt1) - len(prompt2)) < 20
SimilarLengthSlack == 20

Abs(x) == IF x >= 0 THEN x ELSE -x

\* _is_similar_prompt: both present, and the same first 50 characters or a
\* similar length.
_is_similar_prompt(record1, record2) ==
    LET prompt1 == record1.prompt
        prompt2 == record2.prompt
    IN  /\ Truthy(prompt1)
        /\ Truthy(prompt2)
        /\ \/ prompt1.head = prompt2.head
           \/ Abs(prompt1.len - prompt2.len) < SimilarLengthSlack

\* The record joins the open group: within the window of the group's last
\* record, on another model, with a similar prompt.
StormExtends(record, last_record, window) ==
    /\ Abs(record.startTime - last_record.startTime) <= window
    /\ record.model # last_record.model
    /\ _is_similar_prompt(record, last_record)

\* The loop of _find_fallback_patterns from index i on.
RECURSIVE StormGroupLoop(_, _, _, _, _, _)
StormGroupLoop(sorted_records, i, fallback_groups, current_group, threshold, window) ==
    IF i > Len(sorted_records)
    THEN IF Len(current_group) >= threshold
         THEN Append(fallback_groups, current_group)
         ELSE fallback_groups
    ELSE LET record == sorted_records[i] IN
         IF current_group = <<>>
         THEN StormGroupLoop(sorted_records, i + 1, fallback_groups, <<record>>,
                             threshold, window)
         ELSE IF StormExtends(record, current_group[Len(current_group)], window)
         THEN StormGroupLoop(sorted_records, i + 1, fallback_groups,
                             Append(current_group, record), threshold, window)
         ELSE StormGroupLoop(sorted_records, i + 1,
                             IF Len(current_group) >= threshold
                             THEN Append(fallback_groups, current_group)
                             ELSE fallback_groups,
                             <<record>>, threshold, window)

\* record['startTime'] of a record without the key raises KeyError; the loop
\* reads it as soon as a second record is reached.
StormRaises(records) ==
    /\ Len(records) >= 2
    /\ \E i \in 1..Len(records) : records[i].startTime = NoTime

_find_fallback_patterns(records, threshold, window) ==
    IF Len(records) < 2 THEN <<>>
    ELSE StormGroupLoop(SortByStartTime(records), 1, <<>>, <<>>, threshold, window)

\* list(dict.fromkeys(models_used)): the distinct models in first-use order.
RECURSIVE UniqueInOrder(_)
UniqueInOrder(xs) ==
    IF xs = <<>> THEN <<>>
    ELSE LET front == UniqueInOrder(SubSeq(xs, 1, Len(xs) - 1))
             x == xs[Len(xs)]
         IN  IF x \in Range(front) THEN front ELSE Append(front, x)

\* _get_time_span of the storm detector: max - min of the group's timestamps.
StormTimeSpan(records) ==
    IF Len(records) < 2 THEN 0
    ELSE LET ts == {records[i].startTime : i \in 1..Len(records)}
         IN  (CHOOSE a \in ts : \A b \in ts : a >= b)
             - (CHOOSE a \in ts : \A b \in ts : a <= b)

StormDetection(trace_id, group) ==
    [type |-> "fallback_storm",
     trace_id |-> trace_id,
     severity |-> IF Len(group) > 5 THEN "high" ELSE "medium",
     waste_tokens |-> TotalTokens(group),
     waste_cost |-> SumCosts([i \in 1..Len(group) |-> GetCost(group[i])]),
     fallback_count |-> Len(group),
     models_sequence |-> UniqueInOrder([k \in 1..Len(group) |-> group[k].model]),
     time_span |-> StormTimeSpan(group),
     records |-> group]

\* The qualifying groups of one trace.
StormHits(records, threshold, window) ==
    SelectSeq(_find_fallback_patterns(records, threshold, window),
              LAMBDA g : Len(g) >= threshold)

StormDetectTrace(trace_id, records, threshold, window) ==
    LET hits == StormHits(records, threshold, window)
    IN  [k \in 1..Len(hits) |-> StormDetection(trace_id, hits[k])]

\* sum(r.get('cost', 0.0) for r in group) raises TypeError on a None.
StormCostRaises(trs, threshold, window) ==
    \E t \in DOMAIN trs :
        LET hits == StormHits(trs[t], threshold, window)
        IN  \E k \in 1..Len(hits) :
               SumRaises([i \in 1..Len(hits[k]) |-> GetCost(hits[k][i])])

\* FallbackStormDetector.detect(traces)
FallbackStormDetect(trs, threshold, window) ==
    LET ids == TraceIdsOf(trs)
    IN  Concat([k \in 1..Len(ids) |->
                  StormDetectTrace(ids[k], trs[ids[k]], threshold, window)])

(***************************************************************************)
(* SpecStorm: FallbackStormDetector.detect on bounded trace maps           *)
(***************************************************************************)
\* FallbackStormDetector(fallback_threshold=3, ...)
DefaultFallbackThreshold == 3

StormPrompts == {PromptA, PromptC}

StormRecords ==
    {Record(time, model, prompt) :
        time \in 0..MaxTime, model \in Models, prompt \in StormPrompts}

StormTraceMaps ==
    {("t1" :> recs) @@ ("t2" :> SecondTrace) :
        recs \in SeqsUpTo(StormRecords, MaxLen) \ {<<>>}}

InitStorm ==
    /\ EngineIdle
    /\ LoopIdle
    /\ CostIdle
    /\ ModeIdle
    /\ traces \in StormTraceMaps
    /\ max_retries = 0
    /\ time_window = 0
    /\ fallback_threshold \in 1..DefaultFallbackThreshold
    /\ storm_window \in 1..MaxTime
    /\ flagged_arg = NotFlagged
    /\ detections = <<>>
    /\ raised = NoError
    /\ pc = "ready"

\* detector.detect(traces)
StormDetect ==
    /\ pc = "ready"
    /\ IF \E t \in DOMAIN traces : StormRaises(traces[t])
       THEN detections' = detections /\ raised' = "KeyError"
       ELSE /\ detections' = FallbackStormDetect(traces, fallback_threshold, storm_window)
            /\ raised' = NoError
    /\ flagged_arg' = NotFlagged
    /\ pc' = "done"
    /\ UNCHANGED <<engineVars, costVars, modeVars, loopVars, traces, max_retries,
                   time_window, fallback_threshold, storm_window>>

\* detector.detect(traces, already_flagged_ids=S): detect has no such
\* parameter, so binding the keyword raises TypeError before the body runs.
StormDetectFlagged ==
    /\ pc = "ready"
    /\ \E S \in (SUBSET DOMAIN traces) \ {{}, DOMAIN traces} :
          /\ flagged_arg' = Flagged(S)
          /\ IF "already_flagged_ids" \in StormDetectParams
             THEN /\ detections' =
                        FallbackStormDetect([t \in DOMAIN traces \ S |-> traces[t]],
                                            fallback_threshold, storm_window)
                  /\ raised' = NoError
             ELSE /\ detections' = detections
                  /\ raised' = "TypeError"
    /\ pc' = "done"
    /\ UNCHANGED <<engineVars, costVars, modeVars, loopVars, traces, max_retries,
                   time_window, fallback_threshold, storm_window>>

NextStorm == StormDetect \/ StormDetectFlagged

SpecStorm == InitStorm /\ [][NextStorm]_vars

(***************************************************************************)
(* Claims about FallbackStormDetector (checked under SpecStorm)            *)
(***************************************************************************)
StormDone == pc = "done" /\ ~flagged_arg.given /\ raised = NoError

SameModelThroughout(records) ==
    \A i, j \in 1..Len(records) : records[i].model = records[j].model

\* C10: a storm requires model diversity.  For any call count, time spacing
\* and configured threshold, a trace whose records all use the same model
\* produces no fallback_storm detection, and every fallback_storm detection's
\* models_sequence has at least 2 distinct models.
C10_StormNeedsModelDiversity ==
    StormDone =>
        /\ \A t \in DOMAIN traces :
              SameModelThroughout(traces[t]) => OnTrace(detections, t) = <<>>
        /\ \A k \in 1..Len(detections) :
              Cardinality(Range(detections[k].models_sequence)) >= 2

\* C11: a run is a fallback storm only if its full time span fits the window.
\* For every fallback_storm detection the time between the first and the last
\* record of its run is at most the configured window.
C11_StormSpanWithinWindow ==
    StormDone =>
        \A k \in 1..Len(detections) :
            LET run == detections[k].records
            IN  run[Len(run)].startTime - run[1].startTime <= storm_window

(***************************************************************************)
(* FallbackFailureDetector                                                 *)
(***************************************************************************)
\* The price tier of a model: a higher tier is strictly more expensive.
ModelTier(model) == IF model = "gpt-4" THEN 2 ELSE 1

\* succeeded: non-zero completion tokens or a non-empty output, and no error.
Succeeded(record) ==
    /\ record.completion_tokens > 0 \/ record.output
    /\ ~record.error

\* A variant that does not ask whether the primary call succeeded.
Mut_IsFallbackFailure(primary, fallback, window) ==
    /\ ModelTier(primary.model) < ModelTier(fallback.model)
    /\ Truthy(primary.prompt)
    /\ primary.prompt = fallback.prompt
    /\ fallback.startTime - primary.startTime <= window

\* A succeeded cheap call immediately followed, within the window, by a call
\* of a strictly more expensive tier with exactly the same prompt.
IsFallbackFailure(primary, fallback, window) ==
    /\ Succeeded(primary)
    /\ ModelTier(primary.model) < ModelTier(fallback.model)
    /\ Truthy(primary.prompt)
    /\ primary.prompt = fallback.prompt
    /\ fallback.startTime - primary.startTime <= window

FallbackFailureDetection(trace_id, primary, fallback) ==
    [type |-> "fallback_failure",
     trace_id |-> trace_id,
     severity |-> "medium",
     primary_model |-> primary.model,
     fallback_model |-> fallback.model,
     model_tiers |-> <<ModelTier(primary.model), ModelTier(fallback.model)>>,
     time_between_calls |-> fallback.startTime - primary.startTime,
     records |-> <<primary, fallback>>]

\* The detection of one trace: its first qualifying pair, if any.
FallbackFailureTrace(trace_id, records, window) ==
    LET s == SortByStartTime(SelectSeq(records, LAMBDA r : r.startTime # NoTime))
        pairs == {i \in 1..(Len(s) - 1) : IsFallbackFailure(s[i], s[i + 1], window)}
    IN  IF pairs = {} THEN <<>>
        ELSE LET i == CHOOSE x \in pairs : \A y \in pairs : x <= y
             IN  <<FallbackFailureDetection(trace_id, s[i], s[i + 1])>>

\* FallbackFailureDetector.detect(traces, model_pricing, already_flagged_ids)
FallbackFailureDetect(trs, already_flagged_ids, window) ==
    LET ids == SelectSeq(TraceIdsOf(trs), LAMBDA t : t \notin already_flagged_ids)
    IN  Concat([k \in 1..Len(ids) |-> FallbackFailureTrace(ids[k], trs[ids[k]], window)])

(***************************************************************************)
(* SpecFallback: FallbackFailureDetector.detect on bounded trace maps      *)
(***************************************************************************)
FallbackRecords ==
    {FullRecord(time, model, PromptA, 5, completion_tokens, FALSE, FALSE) :
        time \in 0..MaxTime, model \in Models, completion_tokens \in {0, 8}}

\* A succeeded cheap call followed by a pricier call with another prompt.
FallbackSecondTrace ==
    <<FullRecord(0, "gpt-3.5-turbo", PromptA, 5, 8, FALSE, FALSE),
      FullRecord(0, "gpt-4", PromptB, 5, 8, FALSE, FALSE)>>

FallbackTraceMaps ==
    {("t1" :> recs) @@ ("t2" :> FallbackSecondTrace) :
        recs \in SeqsUpTo(FallbackRecords, MaxLen) \ {<<>>}}

\* time_window holds the detector's window, in minutes.
InitFallback ==
    /\ EngineIdle
    /\ LoopIdle
    /\ CostIdle
    /\ ModeIdle
    /\ traces \in FallbackTraceMaps
    /\ max_retries = 0
    /\ time_window \in 1..MaxTime
    /\ fallback_threshold = 0
    /\ storm_window = 0
    /\ flagged_arg = NotFlagged
    /\ detections = <<>>
    /\ raised = NoError
    /\ pc = "ready"

\* detector.detect(traces)
FallbackDetect ==
    /\ pc = "ready"
    /\ detections' = FallbackFailureDetect(traces, {}, time_window)
    /\ raised' = NoError
    /\ flagged_arg' = NotFlagged
    /\ pc' = "done"
    /\ UNCHANGED <<engineVars, costVars, modeVars, loopVars, traces, max_retries,
                   time_window, fallback_threshold, storm_window>>

\* detector.detect(traces, already_flagged_ids=S)
FallbackDetectFlagged ==
    /\ pc = "ready"
    /\ \E S \in (SUBSET DOMAIN traces) \ {{}, DOMAIN traces} :
          /\ flagged_arg' = Flagged(S)
          /\ detections' = FallbackFailureDetect(traces, S, time_window)
    /\ raised' = NoError
    /\ pc' = "done"
    /\ UNCHANGED <<engineVars, costVars, modeVars, loopVars, traces, max_retries,
                   time_window, fallback_threshold, storm_window>>

NextFallback == FallbackDetect \/ FallbackDetectFlagged

SpecFallback == InitFallback /\ [][NextFallback]_vars

(***************************************************************************)
(* Claims about FallbackFailureDetector (checked under SpecFallback)       *)
(***************************************************************************)
FallbackDone == pc = "done" /\ ~flagged_arg.given

\* Records k and k+1 of s escalate: a cheaper call, then within the window a
\* call of a pricier model with the same prompt.
Escalates(s, k) ==
    /\ ModelTier(s[k].model) < ModelTier(s[k + 1].model)
    /\ s[k].prompt # NoPrompt
    /\ s[k].prompt = s[k + 1].prompt
    /\ s[k + 1].startTime - s[k].startTime <= time_window

\* C12: fallback failure requires success-then-escalate.  The primary call of
\* every fallback_failure detection has completion tokens, and a trace whose
\* escalating pairs all have a primary call with zero completion tokens
\* produces no fallback_failure detection.
C12_SuccessThenEscalate ==
    FallbackDone =>
        /\ \A k \in 1..Len(detections) :
              detections[k].records[1].completion_tokens > 0
        /\ \A t \in DOMAIN traces :
              LET s == Chronological(t) IN
              (\A k \in 1..(Len(s) - 1) :
                   Escalates(s, k) => s[k].completion_tokens = 0)
                  => OnTrace(detections, t) = <<>>

\* C12 witness: a trace holds an escalating pair, every such pair has a failed
\* primary call, and the trace is not reported.
C12_Witness ==
    /\ FallbackDone
    /\ \E t \in DOMAIN traces :
          LET s == Chronological(t) IN
          /\ \E k \in 1..(Len(s) - 1) : Escalates(s, k)
          /\ \A k \in 1..(Len(s) - 1) :
                Escalates(s, k) => s[k].completion_tokens = 0
          /\ OnTrace(detections, t) = <<>>

(***************************************************************************)
(* Overkill detection                                                      *)
(***************************************************************************)
\* detect_expensive_model_waste: expensive model -> suggested cheaper model.
expensive_models ==
    [m \in {"gpt-4", "gpt-4-32k", "gpt-4-turbo", "claude-3-opus",
            "claude-3-sonnet", "claude-2.1", "claude-2.0"} |->
        CASE m = "gpt-4" -> "gpt-3.5-turbo"
          [] m = "gpt-4-32k" -> "gpt-3.5-turbo-16k"
          [] m = "gpt-4-turbo" -> "gpt-3.5-turbo"
          [] m = "claude-3-opus" -> "claude-3-sonnet"
          [] OTHER -> "claude-3-haiku"]

\* min_tokens_for_gpt4: int = 100
min_tokens_for_gpt4 == 100

\* record.get('prompt_tokens', len(prompt.split()))
PromptTokensOf(record) ==
    IF record.prompt_tokens = NoTokens THEN record.prompt.words
    ELSE record.prompt_tokens

ExpensiveShort(record) ==
    /\ record.model \in DOMAIN expensive_models
    /\ PromptTokensOf(record) < min_tokens_for_gpt4

\* A variant that reports the plain difference.
Mut_potential_savings(current_cost, cheaper_cost) == current_cost - cheaper_cost

\* potential_savings = max(0.0, current_cost - cheaper_cost)
potential_savings(current_cost, cheaper_cost) == Max(0, current_cost - cheaper_cost)

ExpensiveShortDetection(trace_id, record, model_pricing) ==
    [type |-> "expensive_model_short",
     trace_id |-> trace_id,
     severity |-> "medium",
     waste_tokens |-> record.completion_tokens,
     waste_cost |->
        potential_savings(
            _calculate_record_cost(record, model_pricing).value,
            _calculate_cost_with_model(record, expensive_models[record.model],
                                       model_pricing).value),
     prompt_length |-> PromptTokensOf(record),
     model_used |-> record.model,
     suggested_model |-> expensive_models[record.model],
     records |-> <<record>>]

\* detect_expensive_model_waste(traces, model_pricing=...); the body of
\* ShortModelDetector.detect is the same.
detect_expensive_model_waste(trs, model_pricing) ==
    LET ids == TraceIdsOf(trs)
    IN  Concat([k \in 1..Len(ids) |->
          LET hits == SelectSeq(trs[ids[k]], ExpensiveShort)
          IN  [j \in 1..Len(hits) |->
                  ExpensiveShortDetection(ids[k], hits[j], model_pricing)]])

\* current_cost - cheaper_cost raises TypeError when current_cost is None.
ExpensiveWasteRaises(trs, model_pricing) ==
    \E t \in DOMAIN trs : \E i \in 1..Len(trs[t]) :
        /\ ExpensiveShort(trs[t][i])
        /\ _calculate_record_cost(trs[t][i], model_pricing).kind = "null"

\* GPT4ShortDetector(min_tokens_for_gpt4=100, gpt4_cost_multiplier=20.0)
gpt4_cost_multiplier == 20

\* GPT4ShortDetector: prompt_tokens = len(prompt.split())
GPT4Short(record) ==
    /\ record.model \in DOMAIN expensive_models
    /\ record.prompt.words < min_tokens_for_gpt4

\* potential_savings = current_cost - current_cost / gpt4_cost_multiplier,
\* exact for the costs that are multiples of the multiplier.
GPT4ShortDetection(trace_id, record) ==
    LET current_cost == GetCost(record).value
        estimated_cheaper_cost == current_cost \div gpt4_cost_multiplier
    IN  [type |-> "expensive_model_short",
         trace_id |-> trace_id,
         severity |-> "medium",
         waste_tokens |-> record.completion_tokens,
         waste_cost |-> current_cost - estimated_cheaper_cost,
         prompt_length |-> record.prompt.words,
         model_used |-> record.model,
         suggested_model |-> expensive_models[record.model],
         records |-> <<record>>]

\* GPT4ShortDetector.detect(traces)
GPT4ShortDetect(trs) ==
    LET ids == TraceIdsOf(trs)
    IN  Concat([k \in 1..Len(ids) |->
          LET hits == SelectSeq(trs[ids[k]], GPT4Short)
          IN  [j \in 1..Len(hits) |-> GPT4ShortDetection(ids[k], hits[j])]])

\* current_cost / self.gpt4_cost_multiplier raises TypeError on a None.
GPT4ShortRaises(trs) ==
    \E t \in DOMAIN trs : \E i \in 1..Len(trs[t]) :
        GPT4Short(trs[t][i]) /\ GetCost(trs[t][i]).kind = "null"

\* OverkillModelDetector(max_prompt_tokens_for_overkill=20, max_prompt_chars=150)
max_prompt_tokens_for_overkill == 20
max_prompt_chars == 150

\* The models of the model set whose name contains an overkill_model_names entry.
OverkillModelNames == {"gpt-4"}

simple_prompt_keywords == {"summarize", "fix grammar", "translate", "explain"}

simple_patterns ==
    [p \in {"what is", "what are", "how to", "define", "definition", "list", "show me"} |->
        CASE p \in {"what is", "what are"} -> "simple question"
          [] p = "how to" -> "simple how-to"
          [] p \in {"define", "definition"} -> "simple definition"
          [] OTHER -> "simple listing"]

_is_expensive_model(model) == model \in OverkillModelNames

_span_succeeded(record) ==
    \/ record.completion_tokens > 0
    \/ record.output
    \/ ~record.error

\* max(1, int(word_count * 0.75)), 0 for an empty text
_estimate_tokens(prompt) ==
    IF ~Truthy(prompt) THEN 0 ELSE Max(1, (prompt.words * 3) \div 4)

\* The reason the task looks simple, or "" for None.
_check_simple_task_heuristics(prompt) ==
    IF prompt.starts \in simple_prompt_keywords THEN "prompt starts with keyword"
    ELSE IF prompt.len < max_prompt_chars THEN "prompt too short"
    ELSE IF prompt.starts \in DOMAIN simple_patterns THEN simple_patterns[prompt.starts]
    ELSE ""

_has_complex_format(prompt) == prompt.complex

_check_overkill_pattern(record) ==
    /\ _is_expensive_model(record.model)
    /\ _span_succeeded(record)
    /\ _estimate_tokens(record.prompt) <= max_prompt_tokens_for_overkill
    /\ _check_simple_task_heuristics(record.prompt) # ""
    /\ ~_has_complex_format(record.prompt)

\* The detection carries no 'records' entry.
\* waste_cost = estimated_cost * 0.7, exact for the costs that are multiples
\* of 10.
OverkillDetection(trace_id, record, model_pricing) ==
    LET estimated_cost == _calculate_estimated_cost(record, model_pricing).value
    IN  [type |-> "overkill_model",
         trace_id |-> trace_id,
         severity |-> "medium",
         model |-> record.model,
         prompt_tokens |-> _estimate_tokens(record.prompt),
         prompt_length |-> record.prompt.len,
         reason |-> _check_simple_task_heuristics(record.prompt),
         estimated_cost_usd |-> estimated_cost,
         overkill_detected |-> TRUE,
         waste_cost |-> (estimated_cost * 7) \div 10]

\* OverkillModelDetector.detect(traces, model_pricing)
OverkillModelDetect(trs, model_pricing) ==
    LET ids == TraceIdsOf(trs)
    IN  Concat([k \in 1..Len(ids) |->
          LET hits == SelectSeq(trs[ids[k]], _check_overkill_pattern)
          IN  [j \in 1..Len(hits) |->
                  OverkillDetection(ids[k], hits[j], model_pricing)]])

(***************************************************************************)
(* SpecOverkill: the two overkill entry points on bounded trace maps       *)
(***************************************************************************)
\* "summarize this paragraph"
PromptSummarize ==
    [head |-> "summarize this paragraph", rest |-> "", len |-> 24, words |-> 3,
     starts |-> "summarize", complex |-> FALSE]
\* The 176-character, 20-word prompt of not_overkill_long.
PromptLong ==
    [head |-> "generate production-ready backend for this schema ",
     rest |-> "with comprehensive error handling, ...", len |-> 176, words |-> 20,
     starts |-> "", complex |-> FALSE]
\* '{"task": "translate", "context": "business document"}'
PromptJson ==
    [head |-> "{task: translate, context: business document}", rest |-> "",
     len |-> 53, words |-> 5, starts |-> "", complex |-> TRUE]
\* "explain" followed by 26 words: 27 words, estimated at 20 tokens.
PromptAtThreshold ==
    [head |-> "explain word word word word word word word word w",
     rest |-> "ord ... (27 words)", len |-> 137, words |-> 27,
     starts |-> "explain", complex |-> FALSE]
\* "explain" followed by 27 words: 28 words, estimated at 21 tokens.
PromptOverThreshold ==
    [head |-> "explain word word word word word word word word w",
     rest |-> "ord ... (28 words)", len |-> 142, words |-> 28,
     starts |-> "explain", complex |-> FALSE]
\* "what is" followed by 20 seven-letter words: 167 characters, 22 words.
PromptLongQuestion ==
    [head |-> "what is several several several several several se",
     rest |-> "veral ... (22 words)", len |-> 167, words |-> 22,
     starts |-> "what is", complex |-> FALSE]

OverkillPrompts ==
    {PromptSummarize, PromptLong, PromptJson, PromptAtThreshold,
     PromptOverThreshold, PromptLongQuestion}

OverkillRecords ==
    {FullRecord(0, model, prompt, 5, completion_tokens, output, error) :
        model \in Models, prompt \in OverkillPrompts,
        completion_tokens \in {0, 8}, output \in BOOLEAN, error \in BOOLEAN}

OverkillTraceMaps ==
    {("t1" :> recs) @@ ("t2" :> <<Record(0, "gpt-3.5-turbo", PromptSummarize)>>) :
        recs \in SeqsUpTo(OverkillRecords, MaxLen - 1) \ {<<>>}}

InitOverkill ==
    /\ EngineIdle
    /\ LoopIdle
    /\ CostIdle
    /\ ModeIdle
    /\ traces \in OverkillTraceMaps
    /\ max_retries = 0
    /\ time_window = 0
    /\ fallback_threshold = 0
    /\ storm_window = 0
    /\ flagged_arg = NotFlagged
    /\ detections = <<>>
    /\ raised = NoError
    /\ pc = "ready"

\* OverkillModelDetector(...).detect(traces)
OverkillDetect ==
    /\ pc = "ready"
    /\ detections' = OverkillModelDetect(traces, NoPricing)
    /\ pc' = "overkill_model"
    /\ UNCHANGED <<engineVars, costVars, modeVars, loopVars, traces, max_retries,
                   time_window, fallback_threshold, storm_window, flagged_arg, raised>>

\* detect_expensive_model_waste(traces)
ExpensiveWasteDetect ==
    /\ pc = "ready"
    /\ detections' = detect_expensive_model_waste(traces, NoPricing)
    /\ pc' = "expensive_model_short"
    /\ UNCHANGED <<engineVars, costVars, modeVars, loopVars, traces, max_retries,
                   time_window, fallback_threshold, storm_window, flagged_arg, raised>>

NextOverkill == OverkillDetect \/ ExpensiveWasteDetect

SpecOverkill == InitOverkill /\ [][NextOverkill]_vars

(***************************************************************************)
(* Claims about overkill detection (checked under SpecOverkill)            *)
(***************************************************************************)
\* Succeeded as the record's derived flag: completion tokens or an output, and
\* no error flag.
SucceededFlag(record) ==
    /\ record.completion_tokens > 0 \/ record.output
    /\ ~record.error

\* The five conditions of an overkill record.
OverkillConditions(record) ==
    /\ record.model \in OverkillModelNames
    /\ SucceededFlag(record)
    /\ _estimate_tokens(record.prompt) < max_prompt_tokens_for_overkill
    /\ \/ record.prompt.starts \in simple_prompt_keywords
       \/ record.prompt.len < max_prompt_chars
    /\ ~record.prompt.complex

\* C13: a record is flagged as overkill if and only if its model is expensive,
\* it succeeded, its prompt token count is below the threshold, the prompt
\* starts with a keyword or is shorter than the character threshold, and the
\* prompt has no complex format.  Per trace, OverkillModelDetector.detect
\* reports exactly the records that meet the five conditions.
C13_OverkillIffConditions ==
    pc = "overkill_model" =>
        \A t \in DOMAIN traces :
            Len(OnTrace(detections, t)) = Len(SelectSeq(traces[t], OverkillConditions))

HasComplexPrompt(record) == record.prompt.complex

\* C14: a prompt with a complex format is never flagged by any overkill entry
\* point.  A trace whose records all carry a complex prompt gets neither an
\* overkill_model nor an expensive_model_short detection.
C14_ComplexNeverFlagged ==
    pc \in {"overkill_model", "expensive_model_short"} =>
        \A t \in DOMAIN traces :
            (\A k \in 1..Len(traces[t]) : HasComplexPrompt(traces[t][k]))
                => OnTrace(detections, t) = <<>>

\* C15: a record counts as succeeded only when no error flag is set.  A trace
\* whose records all either carry an error flag or have neither completion
\* tokens nor an output gets no overkill_model detection.
C15_ErrorNeverSucceeded ==
    pc = "overkill_model" =>
        \A t \in DOMAIN traces :
            (\A k \in 1..Len(traces[t]) : ~SucceededFlag(traces[t][k]))
                => OnTrace(detections, t) = <<>>

(***************************************************************************)
(* SpecCost: the cost functions on one record and one pricing table        *)
(***************************************************************************)
CostValues == {AbsentCost, NullCost, Cost(0), Cost(200)}

\* gpt-4 at 0.03 / 0.06 and gpt-3.5-turbo at 0.0015 / 0.002 dollars per 1k
\* tokens, and a table that prices gpt-3.5-turbo above gpt-4.
Gpt4Row == "gpt-4" :> Row(300, 600)
PricingTables ==
    {NoPricing, EmptyPricing, PricingTable(Gpt4Row),
     PricingTable(Gpt4Row @@ ("gpt-3.5-turbo" :> Row(15, 20))),
     PricingTable(("gpt-4" :> Row(10, 10)) @@ ("gpt-3.5-turbo" :> Row(300, 600)))}

CostRecords ==
    {WithCost(FullRecord(0, model, PromptSummarize, prompt_tokens,
                         completion_tokens, FALSE, FALSE), cost) :
        model \in Models, prompt_tokens \in {NoTokens, 5},
        completion_tokens \in {0, 8}, cost \in CostValues}

\* The record the cost functions are applied to.
CostRecord == traces["t1"][1]

InitCost ==
    /\ EngineIdle
    /\ LoopIdle
    /\ ModeIdle
    /\ \E record \in CostRecords : traces = ("t1" :> <<record>>)
    /\ pricing_arg \in PricingTables
    /\ cost_result = NoArg
    /\ max_retries = 0
    /\ time_window = 0
    /\ fallback_threshold = 0
    /\ storm_window = 0
    /\ flagged_arg = NotFlagged
    /\ detections = <<>>
    /\ raised = NoError
    /\ pc = "ready"

\* _calculate_record_cost(record, model_pricing)
CalculateRecordCost ==
    /\ pc = "ready"
    /\ cost_result' = _calculate_record_cost(CostRecord, pricing_arg)
    /\ pc' = "record_cost"
    /\ UNCHANGED <<engineVars, detectorVars, modeVars, loopVars, pricing_arg>>

\* _calculate_cost_with_model(record, new_model, model_pricing)
CalculateCostWithModel ==
    /\ pc = "ready"
    /\ \E new_model \in Models :
          cost_result' = _calculate_cost_with_model(CostRecord, new_model, pricing_arg)
    /\ pc' = "cost_with_model"
    /\ UNCHANGED <<engineVars, detectorVars, modeVars, loopVars, pricing_arg>>

\* OverkillModelDetector._calculate_estimated_cost(record, model_pricing)
CalculateEstimatedCost ==
    /\ pc = "ready"
    /\ cost_result' = _calculate_estimated_cost(CostRecord, pricing_arg)
    /\ pc' = "estimated_cost"
    /\ UNCHANGED <<engineVars, detectorVars, modeVars, loopVars, pricing_arg>>

NextCost == CalculateRecordCost \/ CalculateCostWithModel \/ CalculateEstimatedCost

SpecCost == InitCost /\ [][NextCost]_vars

(***************************************************************************)
(* Claims about the cost model (checked under SpecCost)                    *)
(***************************************************************************)
\* The pricing table has a row for the model.
HasRow(table, model) == table.given /\ model \in DOMAIN table.rows

\* The cost by precedence: the record's own cost, else the row's rates, else 0.
CostByPrecedence(record, table) ==
    IF record.cost.kind = "number" THEN record.cost
    ELSE IF HasRow(table, record.model)
    THEN Cost(RowCost(record, table.rows[record.model]))
    ELSE Cost(0)

\* C17: cost model precedence.  cost(record, pricing_table) is record.cost when
\* that is present and non-null, else the row's rates applied to the record's
\* token counts when the table has a row for the model, else 0; for every
\* combination of present, absent or null cost and present, absent or empty
\* pricing table the result is a number, never null.
C17_CostPrecedence ==
    pc = "record_cost" =>
        /\ cost_result = CostByPrecedence(CostRecord, pricing_arg)
        /\ cost_result.kind = "number"

(***************************************************************************)
(* SpecWaste: every detector's waste_cost on records with costs            *)
(***************************************************************************)
WasteRecords ==
    {WithCost(Record(0, model, PromptSummarize), cost) :
        model \in Models, cost \in CostValues}

WasteTraceMaps ==
    {("t1" :> recs) @@ ("t2" :> <<Record(0, "gpt-4", PromptSummarize)>>) :
        recs \in SeqsUpTo(WasteRecords, MaxLen - 1) \ {<<>>}}

\* RetryLoopDetector(max_retries=1, time_window_minutes=1) and
\* FallbackStormDetector(fallback_threshold=2, time_window_minutes=1).
InitWaste ==
    /\ EngineIdle
    /\ LoopIdle
    /\ ModeIdle
    /\ traces \in WasteTraceMaps
    /\ pricing_arg \in PricingTables
    /\ cost_result = NoArg
    /\ max_retries = 1
    /\ time_window = 1
    /\ fallback_threshold = 2
    /\ storm_window = 1
    /\ flagged_arg = NotFlagged
    /\ detections = <<>>
    /\ raised = NoError
    /\ pc = "ready"

\* One detect call: it raises TypeError, or returns dets.
WasteCall(raises, dets, position) ==
    /\ pc = "ready"
    /\ IF raises
       THEN raised' = "TypeError" /\ detections' = detections
       ELSE raised' = NoError /\ detections' = dets
    /\ pc' = position
    /\ UNCHANGED <<engineVars, costVars, modeVars, loopVars, traces, max_retries,
                   time_window, fallback_threshold, storm_window, flagged_arg>>

\* RetryLoopDetector.detect(traces, model_pricing)
WasteRetry ==
    WasteCall(RetryRaises(traces, max_retries, time_window, pricing_arg),
              RetryRun(traces, 1, max_retries, time_window, pricing_arg, FALSE,
                       {}, <<>>).detections,
              "retry_loop")

\* FallbackStormDetector.detect(traces)
WasteStorm ==
    WasteCall(StormCostRaises(traces, fallback_threshold, storm_window),
              FallbackStormDetect(traces, fallback_threshold, storm_window),
              "fallback_storm")

\* detect_expensive_model_waste(traces, model_pricing=model_pricing)
WasteExpensive ==
    WasteCall(ExpensiveWasteRaises(traces, pricing_arg),
              detect_expensive_model_waste(traces, pricing_arg),
              "expensive_model_waste")

\* ShortModelDetector.detect(traces, model_pricing)
WasteShortModel ==
    WasteCall(ExpensiveWasteRaises(traces, pricing_arg),
              detect_expensive_model_waste(traces, pricing_arg),
              "short_model")

\* GPT4ShortDetector.detect(traces)
WasteGPT4Short ==
    WasteCall(GPT4ShortRaises(traces), GPT4ShortDetect(traces), "gpt4_short")

\* OverkillModelDetector.detect(traces, model_pricing)
WasteOverkill ==
    WasteCall(FALSE, OverkillModelDetect(traces, pricing_arg), "overkill_model")

NextWaste ==
    \/ WasteRetry
    \/ WasteStorm
    \/ WasteExpensive
    \/ WasteShortModel
    \/ WasteGPT4Short
    \/ WasteOverkill

SpecWaste == InitWaste /\ [][NextWaste]_vars

(***************************************************************************)
(* Claims about waste_cost (checked under SpecWaste)                       *)
(***************************************************************************)
\* current_cost - alternate_cost of a model-swap detection, before clamping.
SwapDifference(d) ==
    LET record == d.records[1] IN
    IF pc = "gpt4_short"
    THEN GetCost(record).value - GetCost(record).value \div gpt4_cost_multiplier
    ELSE _calculate_record_cost(record, pricing_arg).value
         - _calculate_cost_with_model(record, d.suggested_model, pricing_arg).value

\* C16: savings never negative.  Every detection any detector emits has
\* waste_cost >= 0, and a model-swap detection (expensive_model_short, in its
\* three variants) has waste_cost = max(0, current_cost - alternate_cost).
C16_SavingsNeverNegative ==
    \A k \in 1..Len(detections) :
        /\ detections[k].waste_cost >= 0
        /\ pc \in {"expensive_model_waste", "short_model", "gpt4_short"} =>
              detections[k].waste_cost
                  = (IF SwapDifference(detections[k]) > 0
                     THEN SwapDifference(detections[k]) ELSE 0)

\* C16 witness: a model swap that would cost more is reported with waste 0.
C16_Witness ==
    /\ pc \in {"expensive_model_waste", "short_model"}
    /\ \E k \in 1..Len(detections) :
          /\ SwapDifference(detections[k]) < 0
          /\ detections[k].waste_cost = 0

(***************************************************************************)
(* SpecTotal: the detect calls on empty, short and promptless inputs       *)
(***************************************************************************)
TotalRecords ==
    {WithCost(Record(0, model, prompt), cost) :
        model \in Models, prompt \in {NoPrompt, PromptSummarize},
        cost \in {AbsentCost, NullCost, Cost(200)}}

\* The empty map, maps of one trace, and maps of two; t2 has a single record.
TotalTraceMaps ==
    {[t \in ids |-> IF t = "t1" THEN recs
                    ELSE <<Record(0, "gpt-4", NoPrompt)>>] :
        ids \in SUBSET TraceIds,
        recs \in SeqsUpTo(TotalRecords, MaxLen - 1) \ {<<>>}}

InitTotal ==
    /\ EngineIdle
    /\ LoopIdle
    /\ ModeIdle
    /\ traces \in TotalTraceMaps
    /\ pricing_arg \in {NoPricing, PricingTable(Gpt4Row)}
    /\ cost_result = NoArg
    /\ max_retries = 1
    /\ time_window = 1
    /\ fallback_threshold = 2
    /\ storm_window = 1
    /\ flagged_arg = NotFlagged
    /\ detections = <<>>
    /\ raised = NoError
    /\ pc = "ready"

\* The detect calls are those of SpecWaste.
SpecTotal == InitTotal /\ [][NextWaste]_vars

(***************************************************************************)
(* Claims about totality (checked under SpecTotal)                         *)
(***************************************************************************)
\* C20: detectors are total.  Every detect call returns a list and raises no
\* error, on the empty trace map (where the list is empty), on traces with a
\* single record and on records without a prompt.
C20_DetectorsTotal ==
    pc # "ready" =>
        /\ raised = NoError
        /\ DOMAIN traces = {} => detections = <<>>

(***************************************************************************)
(* SpecRepeat: detect called twice on one detector and one trace map       *)
(***************************************************************************)
RepeatRecords ==
    {Record(time, model, prompt) :
        time \in 0..MaxTime, model \in Models,
        prompt \in {PromptWeather1, PromptWeather2}}

RepeatTraceMaps ==
    {("t1" :> recs) @@ ("t2" :> SecondTrace) :
        recs \in SeqsUpTo(RepeatRecords, MaxLen) \ {<<>>}}

\* The retry detector has loaded the sentence encoder or runs in exact-match
\* mode; encode raises on the prompts of the traces in encode_failures.
InitRepeat ==
    /\ EngineIdle
    /\ LoopIdle
    /\ CostIdle
    /\ traces \in RepeatTraceMaps
    /\ max_retries \in 1..(MaxLen - 1)
    /\ time_window = MaxTime
    /\ fallback_threshold = MaxLen - 1
    /\ storm_window = MaxTime
    /\ semantic_model \in BOOLEAN
    /\ encode_failures \in SUBSET TraceIds
    /\ previous = <<>>
    /\ flagged_arg = NotFlagged
    /\ detections = <<>>
    /\ raised = NoError
    /\ pc = "ready"

\* retry_detector.detect(traces), first and second call on the instance.
RepeatRetry(before, after) ==
    LET run == RetryRun(traces, 1, max_retries, time_window, NoPricing,
                        semantic_model, encode_failures, <<>>)
    IN  /\ pc = before
        /\ previous' = detections
        /\ detections' = run.detections
        /\ semantic_model' = run.model
        /\ pc' = after
        /\ UNCHANGED <<engineVars, costVars, loopVars, encode_failures, traces, max_retries,
                       time_window, fallback_threshold, storm_window,
                       flagged_arg, raised>>

RetryFirst == RepeatRetry("ready", "retry_once")
RetryAgain == RepeatRetry("retry_once", "retry_twice")

\* storm_detector.detect(traces), first and second call on the instance.
RepeatStorm(before, after) ==
    /\ pc = before
    /\ previous' = detections
    /\ detections' = FallbackStormDetect(traces, fallback_threshold, storm_window)
    /\ pc' = after
    /\ UNCHANGED <<engineVars, costVars, loopVars, semantic_model, encode_failures, traces,
                   max_retries, time_window, fallback_threshold, storm_window,
                   flagged_arg, raised>>

StormFirst == RepeatStorm("ready", "storm_once")
StormAgain == RepeatStorm("storm_once", "storm_twice")

NextRepeat == RetryFirst \/ RetryAgain \/ StormFirst \/ StormAgain

SpecRepeat == InitRepeat /\ [][NextRepeat]_vars

(***************************************************************************)
(* Claims about repeated calls (checked under SpecRepeat)                  *)
(***************************************************************************)
\* C18: idempotence.  The second detect call of a detector on the same trace
\* map returns the same detection list as the first; nothing the first call
\* wrote changes the result of the second.
C18_SecondCallSameResult ==
    pc \in {"retry_twice", "storm_twice"} => detections = previous

(***************************************************************************)
(* Orchestration: cli.scan_logs and __main__._run_prioritized_detection    *)
(***************************************************************************)
\* The keyword parameters of the detectors' constructors.
RetryInitParams == {"max_retries", "time_window_minutes", "similarity_threshold"}
StormInitParams == {"fallback_threshold", "time_window_minutes"}

\* The keywords the orchestrators construct the detectors with.
CliRetryKwargs == {"max_retries", "time_window_minutes", "max_retry_interval_minutes"}
CliStormKwargs == {"fallback_threshold", "time_window_minutes"}
MainRetryKwargs == {"max_retries", "time_window_minutes", "max_retry_interval_minutes"}
MainStormKwargs == {"min_calls", "max_trace_window_minutes"}

\* A call binds when every keyword names a parameter; otherwise TypeError.
Binds(kwargs, params) == kwargs \subseteq params

\* The thresholds used when the pricing config has no 'thresholds' entry.
CliMaxRetries == 3
MainMaxRetries == 1
RetryWindowMinutes == 5
StormWindowMinutes == 10
FallbackFailureWindowMinutes == 5

Outcome(error, dets) == [raised |-> error, all_detections |-> dets]

\* A variant that collects no trace id.
Mut_FlaggedTraceIds(dets) == {}

\* {d['trace_id'] for d in detections}
FlaggedTraceIds(dets) == {dets[k].trace_id : k \in 1..Len(dets)}

\* scan_logs from the first detect call on, the detectors being constructed:
\* the five passes and the already_flagged_ids handed to the last of them.
scan_logs_passes(trs) ==
    LET fallback_first == FallbackFailureDetect(trs, {}, FallbackFailureWindowMinutes)
        fallback_trace_ids == FlaggedTraceIds(fallback_first)
        traces_without_fallback ==
            [t \in DOMAIN trs \ fallback_trace_ids |-> trs[t]]
        overkill_detections ==
            detect_expensive_model_waste(traces_without_fallback, EmptyPricing)
    IN  IF \E t \in DOMAIN trs : StormRaises(trs[t])
        THEN [raised |-> "KeyError", all_detections |-> <<>>,
              already_flagged_ids |-> {}]
        ELSE LET retry == RetryLoopDetect(trs, CliMaxRetries, RetryWindowMinutes)
                 storm == FallbackStormDetect(trs, DefaultFallbackThreshold,
                                              StormWindowMinutes)
                 already_flagged_ids == FlaggedTraceIds(retry \o storm)
                 fallback_detections ==
                     FallbackFailureDetect(trs, already_flagged_ids,
                                           FallbackFailureWindowMinutes)
             IN  [raised |-> NoError,
                  all_detections |->
                      retry \o storm \o fallback_detections \o overkill_detections,
                  already_flagged_ids |-> already_flagged_ids]

\* scan_logs, from the parsed traces to all_detections.
scan_logs(trs) ==
    IF ~Binds(CliRetryKwargs, RetryInitParams) \/ ~Binds(CliStormKwargs, StormInitParams)
    THEN Outcome("TypeError", <<>>)
    ELSE Outcome(scan_logs_passes(trs).raised, scan_logs_passes(trs).all_detections)

\* f"{trace_id}_{startTime}_{prompt[:50]}"
_create_record_id(record, trace_id) == <<trace_id, record.startTime, record.prompt.head>>

_filter_excluded_records(trs, excluded_records) ==
    LET filtered(t) ==
            SelectSeq(trs[t], LAMBDA r : _create_record_id(r, t) \notin excluded_records)
        kept == {t \in DOMAIN trs : filtered(t) # <<>>}
    IN  [t \in kept |-> filtered(t)]

\* detection.get('records', [])
RecordsOf(detection) ==
    IF "records" \in DOMAIN detection THEN detection.records ELSE <<>>

\* The detectors list of _run_prioritized_detection, in the order it is run.
MainDetectorOrder == <<RetryLoop, FallbackFailure, OverkillModel, FallbackStorm>>

MainDetect(detector_name, trs) ==
    CASE detector_name = RetryLoop ->
            RetryLoopDetect(trs, MainMaxRetries, RetryWindowMinutes)
      [] detector_name = FallbackFailure ->
            FallbackFailureDetect(trs, {}, FallbackFailureWindowMinutes)
      [] detector_name = OverkillModel -> OverkillModelDetect(trs, EmptyPricing)
      [] OTHER ->
            FallbackStormDetect(trs, DefaultFallbackThreshold, StormWindowMinutes)

suppression_notes(detector_name) ==
    CASE detector_name = RetryLoop ->
            [suppressed_detectors |-> <<OverkillModel, FallbackFailure>>,
             reason |-> RetryLoop]
      [] detector_name = FallbackFailure ->
            [suppressed_detectors |-> <<OverkillModel>>, reason |-> FallbackFailure]
      [] OTHER -> [suppressed_detectors |-> <<>>, reason |-> "None"]

\* One iteration of the loop of _run_prioritized_detection: detector i is
\* given the filtered traces, its detections are annotated and appended, and
\* the ids of their records are added to excluded_records.
PrioritizedStep(trs, i, all_detections, excluded_records) ==
    LET detector_name == MainDetectorOrder[i]
        filtered_traces == _filter_excluded_records(trs, excluded_records)
    IN  IF /\ detector_name = FallbackStorm
           /\ \E t \in DOMAIN filtered_traces : StormRaises(filtered_traces[t])
        THEN [raised |-> "KeyError", all_detections |-> <<>>,
              excluded_records |-> excluded_records,
              filtered_traces |-> filtered_traces]
        ELSE LET found == MainDetect(detector_name, filtered_traces)
                 noted == [k \in 1..Len(found) |->
                             found[k] @@ [suppression_notes |->
                                             suppression_notes(detector_name)]]
                 claimed == UNION {{_create_record_id(r, found[k].trace_id) :
                                       r \in Range(RecordsOf(found[k]))} :
                                   k \in 1..Len(found)}
             IN  [raised |-> NoError, all_detections |-> all_detections \o noted,
                  excluded_records |-> excluded_records \cup claimed,
                  filtered_traces |-> filtered_traces]

\* The loop of _run_prioritized_detection from detector i on.
RECURSIVE PrioritizedLoop(_, _, _, _)
PrioritizedLoop(trs, i, all_detections, excluded_records) ==
    IF i > Len(MainDetectorOrder) THEN Outcome(NoError, all_detections)
    ELSE LET step == PrioritizedStep(trs, i, all_detections, excluded_records)
         IN  IF step.raised # NoError THEN Outcome(step.raised, <<>>)
             ELSE PrioritizedLoop(trs, i + 1, step.all_detections,
                                  step.excluded_records)

_run_prioritized_detection(trs) ==
    IF ~Binds(MainRetryKwargs, RetryInitParams) \/ ~Binds(MainStormKwargs, StormInitParams)
    THEN Outcome("TypeError", <<>>)
    ELSE PrioritizedLoop(trs, 1, <<>>, {})

(***************************************************************************)
(* SpecScan: one scan of a bounded trace map by either orchestrator        *)
(***************************************************************************)
ScanRecords ==
    {FullRecord(time, model, prompt, 5, completion_tokens, FALSE, FALSE) :
        time \in 0..MaxTime, model \in Models, prompt \in RetryPrompts,
        completion_tokens \in {0, 8}}

ScanTraceMaps ==
    {("t1" :> recs) @@ ("t2" :> SecondTrace) :
        recs \in SeqsUpTo(ScanRecords, MaxLen) \ {<<>>}}

InitScan ==
    /\ EngineIdle
    /\ LoopIdle
    /\ CostIdle
    /\ ModeIdle
    /\ traces \in ScanTraceMaps
    /\ max_retries = 0
    /\ time_window = 0
    /\ fallback_threshold = 0
    /\ storm_window = 0
    /\ flagged_arg = NotFlagged
    /\ detections = <<>>
    /\ raised = NoError
    /\ pc = "ready"

\* scan_logs(logfile): detections becomes all_detections.
ScanLogs ==
    /\ pc = "ready"
    /\ detections' = scan_logs(traces).all_detections
    /\ raised' = scan_logs(traces).raised
    /\ pc' = "scan_logs"
    /\ UNCHANGED <<engineVars, costVars, modeVars, loopVars, traces, max_retries,
                   time_window, fallback_threshold, storm_window, flagged_arg>>

\* _run_prioritized_detection(traces, pricing_config)
RunPrioritizedDetection ==
    /\ pc = "ready"
    /\ detections' = _run_prioritized_detection(traces).all_detections
    /\ raised' = _run_prioritized_detection(traces).raised
    /\ pc' = "prioritized"
    /\ UNCHANGED <<engineVars, costVars, modeVars, loopVars, traces, max_retries,
                   time_window, fallback_threshold, storm_window, flagged_arg>>

NextScan == ScanLogs \/ RunPrioritizedDetection

SpecScan == InitScan /\ [][NextScan]_vars

(***************************************************************************)
(* Claims about the orchestration (checked under SpecScan)                 *)
(***************************************************************************)
ScanEnded == pc \in {"scan_logs", "prioritized"}

DetectorOfType(type) ==
    CASE type = "retry_loop" -> RetryLoop
      [] type = "fallback_failure" -> FallbackFailure
      [] type = "fallback_storm" -> FallbackStorm
      [] OTHER -> OverkillModel

\* The detectors with a detection on trace t in the list dets.
DetectorsOn(dets, t) ==
    {DetectorOfType(dets[k].type) : k \in {j \in 1..Len(dets) : dets[j].trace_id = t}}

\* C2: at the end of a scan the final detection list is produced and, for
\* every trace_id, all its detections come from one detector: no trace
\* carries detections of two different detectors.
C2_OneDetectorPerTrace ==
    ScanEnded =>
        /\ raised = NoError
        /\ \A t \in DOMAIN traces : Cardinality(DetectorsOn(detections, t)) <= 1

\* What a detector reports when it alone looks at the whole trace map, with
\* the thresholds of the orchestrator that ran.
Alone(detector_name) ==
    CASE detector_name = RetryLoop ->
            RetryLoopDetect(traces,
                            IF pc = "scan_logs" THEN CliMaxRetries ELSE MainMaxRetries,
                            RetryWindowMinutes)
      [] detector_name = FallbackFailure ->
            FallbackFailureDetect(traces, {}, FallbackFailureWindowMinutes)
      [] detector_name = FallbackStorm ->
            FallbackStormDetect(traces, DefaultFallbackThreshold, StormWindowMinutes)
      [] OTHER ->
            IF pc = "scan_logs" THEN detect_expensive_model_waste(traces, EmptyPricing)
            ELSE OverkillModelDetect(traces, EmptyPricing)

Flaggers(t) == {d \in Detectors : OnTrace(Alone(d), t) # <<>>}

\* C5: findings are reconciled in the canonical order Retry-Loop,
\* Fallback-Failure, Fallback-Storm, Overkill-Model.  In either orchestration
\* path the scan ends with a final list in which a trace flagged by two or
\* more detectors keeps the findings of the earliest of them in this order,
\* and only those.
C5_CanonicalOrderSurvives ==
    ScanEnded =>
        /\ raised = NoError
        /\ \A t \in DOMAIN traces :
              Cardinality(Flaggers(t)) >= 2 =>
                  DetectorsOn(detections, t) =
                      {CHOOSE d \in Flaggers(t) :
                          \A e \in Flaggers(t) :
                              DETECTOR_PRIORITY[d] <= DETECTOR_PRIORITY[e]}

(***************************************************************************)
(* SpecFrame: what detect calls and annotation steps leave of the input    *)
(***************************************************************************)
\* A variant that sorts the caller's list in place (records.sort(key=...)).
Mut_ListAfterSorted(records) == SortByStartTime(records)

\* sorted(records, key=...) builds a new list: the list passed in keeps its
\* records and their order.
ListAfterSorted(records) == records

\* The trace map after a detect call of a detector that orders the records.
TracesAfterDetect(trs) == [t \in DOMAIN trs |-> ListAfterSorted(trs[t])]

\* cli.scan_logs: det['waste_tokens'] = ..., det['waste_cost'] = ..., summed
\* over det.get('records', []) with the rows of the pricing table.
AnnotatedWithWaste(det, table) ==
    LET recs == IF "records" \in DOMAIN det THEN det.records ELSE <<>>
        priced == SelectSeq(recs, LAMBDA r : HasRow(table, r.model))
    IN  [waste_tokens |-> TotalTokens(recs),
         waste_cost |-> SumOf([i \in 1..Len(priced) |->
                                 RowCost(priced[i], table.rows[priced[i].model])])]
        @@ det

\* __main__: detection['suppression_notes'] = {...}
AnnotatedWithNotes(det) ==
    [suppression_notes |-> suppression_notes(DetectorOfType(det.type))] @@ det

FrameRecords ==
    {Record(time, model, PromptA) : time \in 0..MaxTime, model \in Models}

FrameTraceMaps ==
    {("t1" :> recs) @@ ("t2" :> SecondTrace) :
        recs \in SeqsUpTo(FrameRecords, MaxLen) \ {<<>>}}

InitFrame ==
    /\ EngineIdle
    /\ LoopIdle
    /\ ModeIdle
    /\ traces \in FrameTraceMaps
    /\ pricing_arg = PricingTable(Gpt4Row)
    /\ cost_result = NoArg
    /\ max_retries = 1
    /\ time_window = MaxTime
    /\ fallback_threshold = MaxLen - 1
    /\ storm_window = MaxTime
    /\ flagged_arg = NotFlagged
    /\ detections = <<>>
    /\ raised = NoError
    /\ pc = "ready"

\* A step of the frame specification: the detection list and the position
\* change, the trace map becomes trs.
FrameStep(dets, trs, position) ==
    /\ detections' = dets
    /\ traces' = trs
    /\ pc' = position
    /\ UNCHANGED <<engineVars, costVars, modeVars, loopVars, max_retries, time_window,
                   fallback_threshold, storm_window, flagged_arg, raised>>

\* RetryLoopDetector.detect(traces, model_pricing)
FrameRetry ==
    FrameStep(RetryRun(traces, 1, max_retries, time_window, pricing_arg, FALSE,
                       {}, <<>>).detections,
              TracesAfterDetect(traces), "detected")

\* FallbackStormDetector.detect(traces)
FrameStorm ==
    FrameStep(FallbackStormDetect(traces, fallback_threshold, storm_window),
              TracesAfterDetect(traces), "detected")

\* OverkillModelDetector.detect(traces, model_pricing): reads records only.
FrameOverkill ==
    FrameStep(OverkillModelDetect(traces, pricing_arg), traces, "detected")

\* detect_expensive_model_waste(traces, model_pricing): reads records only.
FrameExpensive ==
    FrameStep(detect_expensive_model_waste(traces, pricing_arg), traces, "detected")

\* The waste annotation loop of scan_logs over the detections at hand.
FrameAnnotateWaste ==
    /\ pc = "detected"
    /\ FrameStep([k \in 1..Len(detections) |->
                     AnnotatedWithWaste(detections[k], pricing_arg)],
                 traces, "annotated")

\* The suppression_notes loop of _run_prioritized_detection.
FrameAnnotateNotes ==
    /\ pc = "detected"
    /\ FrameStep([k \in 1..Len(detections) |-> AnnotatedWithNotes(detections[k])],
                 traces, "annotated")

NextFrame ==
    \/ FrameRetry
    \/ FrameStorm
    \/ FrameOverkill
    \/ FrameExpensive
    \/ FrameAnnotateWaste
    \/ FrameAnnotateNotes

SpecFrame == InitFrame /\ [][NextFrame]_vars

(***************************************************************************)
(* Claims about the input (checked under SpecFrame)                        *)
(***************************************************************************)
\* C19: detectors and the orchestrator never mutate input.  Every detect call
\* and every annotation step leaves the trace map with the same trace ids, the
\* same record order and the same record field values.
C19_InputNeverMutated == [][traces' = traces]_vars

\* C19 witness: detections of a trace whose records are not in start-time
\* order have been annotated.
C19_Witness ==
    /\ pc = "annotated"
    /\ \E k \in 1..Len(detections) :
          /\ detections[k].trace_id = "t1"
          /\ "records" \in DOMAIN detections[k]
    /\ traces["t1"] # SortByStartTime(traces["t1"])

(***************************************************************************)
(* SpecMalformed: the detect calls on records with malformed start times   *)
(***************************************************************************)
\* A 'startTime' string that datetime.fromisoformat rejects ("not-a-date").
\* Not starting with a digit, it sorts after every ISO timestamp; the ''
\* that stands in for a missing key (NoTime) sorts before all of them.
BadTime == 99

Malformed(record) == record.startTime \in {NoTime, BadTime}

\* record['startTime'] and datetime.fromisoformat(...) on one record.
TimeError(record) ==
    IF record.startTime = NoTime THEN "KeyError"
    ELSE IF record.startTime = BadTime THEN "ValueError"
    ELSE NoError

\* _find_retry_groups: records without the key are left out of sorted_records;
\* the grouping loop parses the start time of every record that is left when
\* there are two or more, outside any try block.
RetryTimeError(records, maxRetries) ==
    LET sorted_records == SelectSeq(records, LAMBDA r : r.startTime # NoTime)
    IN  IF /\ Len(records) > maxRetries
           /\ Len(sorted_records) >= 2
           /\ \E i \in 1..Len(sorted_records) : sorted_records[i].startTime = BadTime
        THEN "ValueError"
        ELSE NoError

\* _find_fallback_patterns: the loop parses record 2 and then record 1 of the
\* sorted list, then each later record; the first failure is raised.
StormTimeError(records) ==
    IF Len(records) < 2 THEN NoError
    ELSE LET sorted_records == SortByStartTime(records)
             order == <<2, 1>> \o [k \in 1..(Len(sorted_records) - 2) |-> k + 2]
             failing == {k \in 1..Len(order) :
                            TimeError(sorted_records[order[k]]) # NoError}
         IN  IF failing = {} THEN NoError
             ELSE TimeError(sorted_records[
                      order[CHOOSE k \in failing : \A j \in failing : k <= j]])

\* The error a detect call over the trace map raises: that of the first
\* trace, in iteration order, that fails.
FirstError(errors) ==
    LET failing == {k \in 1..Len(errors) : errors[k] # NoError}
    IN  IF failing = {} THEN NoError
        ELSE errors[CHOOSE k \in failing : \A j \in failing : k <= j]

RetryDetectError(trs, maxRetries) ==
    LET ids == TraceIdsOf(trs)
    IN  FirstError([k \in 1..Len(ids) |-> RetryTimeError(trs[ids[k]], maxRetries)])

StormDetectError(trs) ==
    LET ids == TraceIdsOf(trs)
    IN  FirstError([k \in 1..Len(ids) |-> StormTimeError(trs[ids[k]])])

MalformedRecords ==
    {Record(time, model, PromptA) :
        time \in {NoTime, BadTime} \cup 0..(MaxTime - 1), model \in Models}

\* t2 is a healthy trace: the same prompt sent to two models at once.
HealthyTrace == <<Record(0, "gpt-3.5-turbo", PromptA), Record(0, "gpt-4", PromptA)>>

MalformedTraceMaps ==
    {("t1" :> recs) @@ ("t2" :> HealthyTrace) :
        recs \in SeqsUpTo(MalformedRecords, MaxLen) \ {<<>>}}

\* RetryLoopDetector(max_retries=1, time_window_minutes=1) and
\* FallbackStormDetector(fallback_threshold=2, time_window_minutes=1).
InitMalformed ==
    /\ EngineIdle
    /\ LoopIdle
    /\ CostIdle
    /\ ModeIdle
    /\ traces \in MalformedTraceMaps
    /\ max_retries = 1
    /\ time_window = 1
    /\ fallback_threshold = 2
    /\ storm_window = 1
    /\ flagged_arg = NotFlagged
    /\ detections = <<>>
    /\ raised = NoError
    /\ pc = "ready"

\* retry_detector.detect(traces)
MalformedRetry ==
    /\ pc = "ready"
    /\ raised' = RetryDetectError(traces, max_retries)
    /\ detections' = IF raised' = NoError
                     THEN RetryLoopDetect(traces, max_retries, time_window)
                     ELSE detections
    /\ pc' = "retry_loop"
    /\ UNCHANGED <<engineVars, costVars, modeVars, loopVars, traces, max_retries,
                   time_window, fallback_threshold, storm_window, flagged_arg>>

\* storm_detector.detect(traces)
MalformedStorm ==
    /\ pc = "ready"
    /\ raised' = StormDetectError(traces)
    /\ detections' = IF raised' = NoError
                     THEN FallbackStormDetect(traces, fallback_threshold, storm_window)
                     ELSE detections
    /\ pc' = "fallback_storm"
    /\ UNCHANGED <<engineVars, costVars, modeVars, loopVars, traces, max_retries,
                   time_window, fallback_threshold, storm_window, flagged_arg>>

\* overkill_detector.detect(traces): no start time is read.
MalformedOverkill ==
    /\ pc = "ready"
    /\ raised' = NoError
    /\ detections' = OverkillModelDetect(traces, NoPricing)
    /\ pc' = "overkill_model"
    /\ UNCHANGED <<engineVars, costVars, modeVars, loopVars, traces, max_retries,
                   time_window, fallback_threshold, storm_window, flagged_arg>>

NextMalformed == MalformedRetry \/ MalformedStorm \/ MalformedOverkill

SpecMalformed == InitMalformed /\ [][NextMalformed]_vars

(***************************************************************************)
(* Claims about malformed records (checked under SpecMalformed)            *)
(***************************************************************************)
\* The trace map without its malformed records.
WellFormed(trs) ==
    [t \in DOMAIN trs |-> SelectSeq(trs[t], LAMBDA r : ~Malformed(r))]

\* C21: a malformed record never aborts the scan.  A record whose start time
\* is missing or unparsable is skipped by the retry-loop and fallback-storm
\* detectors: the call raises nothing and returns what it returns for the
\* other records of the trace and for the other traces; the overkill detector
\* still reports the record.
C21_MalformedNeverAborts ==
    /\ pc \in {"retry_loop", "fallback_storm", "overkill_model"} => raised = NoError
    /\ pc = "retry_loop" =>
          detections = RetryLoopDetect(WellFormed(traces), max_retries, time_window)
    /\ pc = "fallback_storm" =>
          detections = FallbackStormDetect(WellFormed(traces), fallback_threshold,
                                           storm_window)
    /\ pc = "overkill_model" =>
          \A t \in DOMAIN traces :
              Len(OnTrace(detections, t))
                  = Len(SelectSeq(traces[t], _check_overkill_pattern))

(***************************************************************************)
(* Claims about the waste of a retry loop (checked under SpecWaste)        *)
(***************************************************************************)
\* The records of a group after the first call.
RetriesOf(group) == Tail(group)

\* C22: the waste of a retry loop excludes the necessary first call.  For
\* every retry_loop detection, waste_tokens and waste_cost are the sums over
\* the group's records other than the first: k identical calls of cost c
\* report waste_cost (k-1)*c.
C22_WasteExcludesFirstCall ==
    pc = "retry_loop" =>
        \A k \in 1..Len(detections) :
            LET retries == RetriesOf(detections[k].records)
            IN  /\ detections[k].waste_tokens = TotalTokens(retries)
                /\ detections[k].waste_cost =
                      SumCosts([i \in 1..Len(retries) |->
                                  _calculate_record_cost(retries[i], pricing_arg)])

(***************************************************************************)
(* SpecLazy: detect on traces long enough to hold two qualifying runs      *)
(***************************************************************************)
\* The records of the trace under study: room for two runs of two.
LazyLen == MaxLen + 1

LazyRecords ==
    {Record(time, model, PromptA) : time \in {0, MaxTime}, model \in Models}
    \cup {Record(0, "gpt-4", PromptB)}

LazyTraceMaps ==
    {("t1" :> recs) @@ ("t2" :> HealthyTrace) :
        recs \in SeqsUpTo(LazyRecords, LazyLen) \ {<<>>}}

\* RetryLoopDetector(max_retries=1, time_window_minutes=1) and
\* FallbackStormDetector(fallback_threshold=2, time_window_minutes=1).
InitLazy ==
    /\ EngineIdle
    /\ LoopIdle
    /\ CostIdle
    /\ ModeIdle
    /\ traces \in LazyTraceMaps
    /\ max_retries = 1
    /\ time_window = 1
    /\ fallback_threshold = 2
    /\ storm_window = 1
    /\ flagged_arg = NotFlagged
    /\ detections = <<>>
    /\ raised = NoError
    /\ pc = "ready"

\* retry_detector.detect(traces): every qualifying group is appended.
LazyRetry ==
    /\ pc = "ready"
    /\ detections' = RetryLoopDetect(traces, max_retries, time_window)
    /\ pc' = "retry_loop"
    /\ UNCHANGED <<engineVars, costVars, modeVars, loopVars, traces, max_retries, time_window,
                   fallback_threshold, storm_window, flagged_arg, raised>>

\* storm_detector.detect(traces): every qualifying group is appended.
LazyStorm ==
    /\ pc = "ready"
    /\ detections' = FallbackStormDetect(traces, fallback_threshold, storm_window)
    /\ pc' = "fallback_storm"
    /\ UNCHANGED <<engineVars, costVars, modeVars, loopVars, traces, max_retries, time_window,
                   fallback_threshold, storm_window, flagged_arg, raised>>

\* detect_expensive_model_waste(traces)
LazyExpensive ==
    /\ pc = "ready"
    /\ detections' = detect_expensive_model_waste(traces, NoPricing)
    /\ pc' = "expensive_model_short"
    /\ UNCHANGED <<engineVars, costVars, modeVars, loopVars, traces, max_retries, time_window,
                   fallback_threshold, storm_window, flagged_arg, raised>>

NextLazy == LazyRetry \/ LazyStorm \/ LazyExpensive

SpecLazy == InitLazy /\ [][NextLazy]_vars

(***************************************************************************)
(* Claims about lazy evaluation (checked under SpecLazy)                   *)
(***************************************************************************)
\* C23: lazy evaluation.  One detect call emits at most one detection per
\* trace: a trace that holds two separate qualifying runs still yields a
\* single detection.
C23_OneDetectionPerTrace ==
    pc \in {"retry_loop", "fallback_storm"} =>
        \A t \in DOMAIN traces : Len(OnTrace(detections, t)) <= 1

(***************************************************************************)
(* Claims about the per-record overkill decision (checked under SpecWaste) *)
(***************************************************************************)
\* The trace map that holds the one record.
Single(trace_id, record) == trace_id :> <<record>>

\* detect_expensive_model_waste flags the record when it is the only record
\* of its trace.
FlaggedAlone(trace_id, record) ==
    /\ ~ExpensiveWasteRaises(Single(trace_id, record), pricing_arg)
    /\ detect_expensive_model_waste(Single(trace_id, record), pricing_arg) # <<>>

\* The call at hand returned a detection of the record.
FlaggedInCall(trace_id, record) ==
    /\ raised = NoError
    /\ \E k \in 1..Len(detections) :
          /\ detections[k].trace_id = trace_id
          /\ detections[k].records = <<record>>

\* C24: in a multi-model trace the overkill decision is per record.  Whether
\* detect_expensive_model_waste flags a record depends on that record alone:
\* it is flagged among the other records of its trace exactly when it is
\* flagged as the trace's only record.
C24_OverkillPerRecord ==
    pc = "expensive_model_waste" =>
        \A t \in DOMAIN traces :
            \A i \in 1..Len(traces[t]) :
                FlaggedInCall(t, traces[t][i]) <=> FlaggedAlone(t, traces[t][i])

(***************************************************************************)
(* Claims about the evidence of a detection (checked under SpecLazy)       *)
(***************************************************************************)
\* How often the record occurs in the list.
Occurrences(records, record) ==
    Cardinality({i \in 1..Len(records) : records[i] = record})

\* The records lists of the detections on trace t, one after the other.
EvidenceOn(t) ==
    LET found == OnTrace(detections, t)
    IN  Concat([k \in 1..Len(found) |-> found[k].records])

\* C25: every detection's records list is evidence from its own trace.  Each
\* element is a record of the trace the detection names, the elements are in
\* ascending start-time order, and no record of a trace is used twice, neither
\* within one list nor by two detections of the same detect call.
C25_RecordsAreOwnEvidence ==
    pc \in {"retry_loop", "fallback_storm", "expensive_model_short"} =>
        /\ \A k \in 1..Len(detections) :
              LET recs == detections[k].records
              IN  /\ detections[k].trace_id \in DOMAIN traces
                  /\ \A i \in 1..Len(recs) :
                        recs[i] \in Range(traces[detections[k].trace_id])
                  /\ \A i, j \in 1..Len(recs) :
                        i < j => recs[i].startTime <= recs[j].startTime
        /\ \A t \in DOMAIN traces :
              \A record \in Range(traces[t]) :
                  Occurrences(EvidenceOn(t), record) <= Occurrences(traces[t], record)

\* C25 witness: a trace whose records are not in start-time order has two
\* detections of one call, and together they use every record of the trace
\* as often as the trace holds it.
C25_Witness ==
    /\ pc \in {"retry_loop", "fallback_storm"}
    /\ Len(OnTrace(detections, "t1")) = 2
    /\ traces["t1"] # SortByStartTime(traces["t1"])
    /\ \A record \in Range(traces["t1"]) :
          Occurrences(EvidenceOn("t1"), record) = Occurrences(traces["t1"], record)

(***************************************************************************)
(* SpecPipeline: the two orchestrators past the construction of the        *)
(* detectors.  The constructor calls of scan_logs and                      *)
(* _run_prioritized_detection raise TypeError (SpecScan); here the         *)
(* detectors are taken as constructed with their default thresholds, and   *)
(* the detector loop is followed one iteration at a time.                  *)
(***************************************************************************)
\* Two prompts with the same first 50 characters.
PromptReportX ==
    [head |-> "Summarise the quarterly report for the board, sect",
     rest |-> "ion one", len |-> 57, words |-> 10, starts |-> "", complex |-> FALSE]
PromptReportY ==
    [head |-> "Summarise the quarterly report for the board, sect",
     rest |-> "ion two", len |-> 57, words |-> 10, starts |-> "", complex |-> FALSE]

PipelineRecords ==
    {Record(0, model, prompt) :
        model \in Models, prompt \in {PromptReportX, PromptReportY}}

PipelineTraceMaps ==
    {("t1" :> recs) @@ ("t2" :> HealthyTrace) :
        recs \in SeqsUpTo(PipelineRecords, LazyLen) \ {<<>>}}

InitPipeline ==
    /\ EngineIdle
    /\ LoopIdle
    /\ CostIdle
    /\ ModeIdle
    /\ traces \in PipelineTraceMaps
    /\ max_retries = 0
    /\ time_window = 0
    /\ fallback_threshold = 0
    /\ storm_window = 0
    /\ flagged_arg = NotFlagged
    /\ detections = <<>>
    /\ raised = NoError
    /\ pc = "ready"

\* The position of the detector loop: before the first iteration, and after
\* each detector of the list.
MainPositions ==
    <<"ready", "after_retry_loop", "after_fallback_failure", "after_overkill_model",
      "after_fallback_storm">>

\* for i, detector in enumerate(detectors): one iteration.
PrioritizedIteration ==
    \E i \in 1..Len(MainDetectorOrder) :
        LET step == PrioritizedStep(traces, i, detections, excluded_ids)
        IN  /\ pc = MainPositions[i]
            /\ raised = NoError
            /\ raised' = step.raised
            /\ detections' = step.all_detections
            /\ excluded_ids' = step.excluded_records
            /\ detector_input' = step.filtered_traces
            /\ pc' = MainPositions[i + 1]
            /\ UNCHANGED <<engineVars, costVars, modeVars, traces, max_retries,
                           time_window, fallback_threshold, storm_window, flagged_arg>>

\* The passes of scan_logs; flagged_arg is the already_flagged_ids of the
\* last fallback-failure pass.
CliScanPasses ==
    /\ pc = "ready"
    /\ raised' = scan_logs_passes(traces).raised
    /\ detections' = scan_logs_passes(traces).all_detections
    /\ flagged_arg' = Flagged(scan_logs_passes(traces).already_flagged_ids)
    /\ pc' = "scan_logs"
    /\ UNCHANGED <<engineVars, costVars, modeVars, loopVars, traces, max_retries,
                   time_window, fallback_threshold, storm_window>>

NextPipeline == PrioritizedIteration \/ CliScanPasses

SpecPipeline == InitPipeline /\ [][NextPipeline]_vars

(***************************************************************************)
(* Claims about the orchestrators (checked under SpecPipeline)             *)
(***************************************************************************)
\* The detectors that flag trace t on the whole trace map and have no
\* detection on t in the list at hand: their findings were suppressed.
ActuallySuppressed(t) ==
    {e \in Detectors :
        /\ OnTrace(MainDetect(e, traces), t) # <<>>
        /\ \A k \in 1..Len(detections) :
              ~(detections[k].trace_id = t /\ detections[k].type = DetectionType(e))}

\* C26: suppression_notes are accurate.  For every detection returned by
\* _run_prioritized_detection, suppressed_detectors lists exactly the
\* lower-priority detectors whose findings were suppressed for that trace; it
\* is empty when no other detector would have flagged the trace.
C26_NotesAccurate ==
    pc = "after_fallback_storm" =>
        \A k \in 1..Len(detections) :
            Range(detections[k].suppression_notes.suppressed_detectors)
                = {e \in ActuallySuppressed(detections[k].trace_id) :
                      DETECTOR_PRIORITY[e]
                          > DETECTOR_PRIORITY[DetectorOfType(detections[k].type)]}

(***************************************************************************)
(* SpecOrdered: the Suppression Engine fed as its caller feeds it, one     *)
(* process_detections call per detector, in canonical priority order.      *)
(***************************************************************************)
\* The priority of the detector of the last call; 0 before the first call.
LastPriority ==
    IF call.detector_name = NoArg THEN 0 ELSE DETECTOR_PRIORITY[call.detector_name]

InitOrdered ==
    /\ \E config \in SUBSET ConfigurablePairs : EngineInit(config)
    /\ DetectorsIdle
    /\ CostIdle
    /\ ModeIdle
    /\ LoopIdle
    /\ pc = "engine_ordered"

\* for detector_name, detections in <detectors in priority order>:
\*     engine.process_detections(detector_name, detections)
ProcessInOrder ==
    /\ pc = "engine_ordered"
    /\ \E detector_name \in Detectors :
         /\ DETECTOR_PRIORITY[detector_name] > LastPriority
         /\ \E dets \in SeqsUpTo(RawDetections(detector_name),
                                 MaxDetections - EngineProcessed) :
               process_detections(detector_name, dets)
    /\ UNCHANGED <<detectorVars, costVars, modeVars, loopVars, pc>>

NextOrdered == ProcessInOrder

SpecOrdered == InitOrdered /\ [][NextOrdered]_vars

(***************************************************************************)
(* Claims about the engine run in priority order (checked under SpecOrdered) *)
(***************************************************************************)
\* C27: suppression only goes downward in priority.  Each entry of
\* suppressed_detections was produced by a detector of strictly lower priority
\* (a larger priority number) than the owner of its trace, and every detection
\* the owner of a trace brings for that trace is returned as active, a second
\* one included.
C27_SuppressionDownward ==
    /\ \A j \in 1..Len(suppressed_detections) :
          LET entry == suppressed_detections[j] IN
          /\ entry.trace_id \in DOMAIN trace_ownership
          /\ entry.suppression_reason = trace_ownership[entry.trace_id]
          /\ DETECTOR_PRIORITY[entry.detector]
                > DETECTOR_PRIORITY[trace_ownership[entry.trace_id]]
    /\ \A t \in DOMAIN trace_ownership :
          trace_ownership[t] = call.detector_name
              => OnTrace(returned, t) = OnTrace(call.detections, t)

\* C27 witness: the owner of a trace has two active detections on it, and a
\* later detector's finding for the same trace is suppressed.
C27_Witness ==
    \E t \in DOMAIN trace_ownership :
        /\ Len(OnTrace(active_detections, t)) = 2
        /\ \A k \in 1..Len(active_detections) :
              active_detections[k].trace_id = t
                  => active_detections[k].type = DetectionType(trace_ownership[t])
        /\ \E j \in 1..Len(suppressed_detections) :
              /\ suppressed_detections[j].trace_id = t
              /\ suppressed_detections[j].detector # trace_ownership[t]

(***************************************************************************)
(* SpecIsolate: detect on a trace map, next to detect on each of its       *)
(* traces alone (a freshly constructed detector with the same settings)    *)
(***************************************************************************)
IsolateLen == MaxLen - 1

IsolateRecords ==
    {Record(0, model, prompt) :
        model \in Models, prompt \in {PromptWeather1, PromptWeather2}}

IsolateTraceMaps ==
    {("t1" :> first) @@ ("t2" :> second) :
        first \in SeqsUpTo(IsolateRecords, IsolateLen) \ {<<>>},
        second \in SeqsUpTo(IsolateRecords, IsolateLen) \ {<<>>}}

\* The map holding trace t alone.
SingleTrace(trs, t) == [u \in {t} |-> trs[t]]

InitIsolate ==
    /\ EngineIdle
    /\ LoopIdle
    /\ CostIdle
    /\ traces \in IsolateTraceMaps
    /\ max_retries = 1
    /\ time_window = MaxTime
    /\ fallback_threshold = IsolateLen
    /\ storm_window = MaxTime
    /\ semantic_model \in BOOLEAN
    /\ encode_failures \in SUBSET TraceIds
    /\ previous = <<>>
    /\ flagged_arg = NotFlagged
    /\ detections = <<>>
    /\ raised = NoError
    /\ pc = "ready"

\* RetryLoopDetector(...).detect({t: traces[t]}) for each trace t in turn, each
\* on a detector as constructed; the lists are concatenated.
RetryAlone ==
    /\ pc = "ready"
    /\ detections' =
          Concat([k \in 1..Len(TraceIdsOf(traces)) |->
                     RetryRun(SingleTrace(traces, TraceIdsOf(traces)[k]), 1, max_retries,
                              time_window, NoPricing, semantic_model,
                              encode_failures, <<>>).detections])
    /\ pc' = "retry_alone"
    /\ UNCHANGED <<engineVars, costVars, loopVars, semantic_model, encode_failures,
                   previous, traces, max_retries, time_window, fallback_threshold,
                   storm_window, flagged_arg, raised>>

\* RetryLoopDetector(...).detect(traces) on a detector as constructed.
RetryWhole ==
    LET run == RetryRun(traces, 1, max_retries, time_window, NoPricing,
                        semantic_model, encode_failures, <<>>)
    IN  /\ pc = "retry_alone"
        /\ previous' = detections
        /\ detections' = run.detections
        /\ semantic_model' = run.model
        /\ pc' = "retry_whole"
        /\ UNCHANGED <<engineVars, costVars, loopVars, encode_failures, traces,
                       max_retries, time_window, fallback_threshold, storm_window,
                       flagged_arg, raised>>

\* FallbackStormDetector(...).detect({t: traces[t]}) for each trace t in turn.
StormAlone ==
    /\ pc = "ready"
    /\ detections' =
          Concat([k \in 1..Len(TraceIdsOf(traces)) |->
                     FallbackStormDetect(SingleTrace(traces, TraceIdsOf(traces)[k]),
                                         fallback_threshold, storm_window)])
    /\ pc' = "storm_alone"
    /\ UNCHANGED <<engineVars, costVars, loopVars, semantic_model, encode_failures,
                   previous, traces, max_retries, time_window, fallback_threshold,
                   storm_window, flagged_arg, raised>>

\* FallbackStormDetector(...).detect(traces).
StormWhole ==
    /\ pc = "storm_alone"
    /\ previous' = detections
    /\ detections' = FallbackStormDetect(traces, fallback_threshold, storm_window)
    /\ pc' = "storm_whole"
    /\ UNCHANGED <<engineVars, costVars, loopVars, semantic_model, encode_failures,
                   traces, max_retries, time_window, fallback_threshold,
                   storm_window, flagged_arg, raised>>

NextIsolate == RetryAlone \/ RetryWhole \/ StormAlone \/ StormWhole

SpecIsolate == InitIsolate /\ [][NextIsolate]_vars

(***************************************************************************)
(* Claims about the independence of traces (checked under SpecIsolate)     *)
(***************************************************************************)
\* C28: traces are analysed independently.  For each detector, the detections
\* detect(traces) emits for trace t are the ones it emits for t when t is the
\* only trace of the map: they depend on t's records and the configuration,
\* not on the other traces.
C28_TracesIndependent ==
    pc \in {"retry_whole", "storm_whole"} =>
        \A t \in DOMAIN traces : OnTrace(detections, t) = OnTrace(previous, t)

\* The storm detector's part of C28.
StormIndependent ==
    pc = "storm_whole" =>
        \A t \in DOMAIN traces : OnTrace(detections, t) = OnTrace(previous, t)

\* The number of the detector that ran last in the detector loop.
LastRan == (CHOOSE i \in 1..Len(MainPositions) : MainPositions[i] = pc) - 1

\* The records of trace t in the records lists of the detections emitted by
\* the detectors that ran before the last one.
ClaimedEarlier(t) ==
    UNION {Range(RecordsOf(detections[k])) :
              k \in {j \in 1..Len(detections) :
                        /\ detections[j].trace_id = t
                        /\ \E i \in 1..(LastRan - 1) :
                              MainDetectorOrder[i] = DetectorOfType(detections[j].type)}}

\* The records of trace t handed to the detector that ran last.
InputOf(t) == IF t \in DOMAIN detector_input THEN detector_input[t] ELSE <<>>

\* C29: record-level exclusion removes exactly the claimed evidence.  The
\* input of each detector of the loop holds, for every trace, the records of
\* the trace that are in no records list of a detection emitted by an earlier
\* detector, and only those: no unclaimed record is removed, every claimed
\* record is.
C29_ExclusionExact ==
    pc \in Range(Tail(MainPositions)) =>
        \A t \in DOMAIN traces :
            InputOf(t) = SelectSeq(traces[t], LAMBDA r : r \notin ClaimedEarlier(t))

\* C29 on the traces whose records all carry one prompt.
ExclusionExactOnePrompt ==
    (\A t \in DOMAIN traces : \A i, j \in 1..Len(traces[t]) :
         traces[t][i].prompt = traces[t][j].prompt)
        => C29_ExclusionExact

\* Trace t has a detection of one of the types in the list dets.
HasType(dets, t, types) ==
    \E k \in 1..Len(dets) : dets[k].trace_id = t /\ dets[k].type \in types

====
